---- MODULE Spec2Model ----
(* ember2D logic core: the entity registry with its tag index (entity.World), *)
(* the extracted dual tag index (entity.TagManager) and the behavior          *)
(* dispatcher (behavior.Dispatcher).                                          *)
(*                                                                            *)
(* Strings are sequences of byte values, so that tag normalisation and the    *)
(* formatting of entity identifiers are computed as the code computes them.   *)
(* A *Entity pointer is the index of the Entity struct in `heap` (0 is nil):  *)
(* a struct stays reachable through a pointer a caller kept even after the    *)
(* World has dropped it.                                                      *)
EXTENDS Integers, Sequences, FiniteSets, TLC

VARIABLES
    impl,             \* which tag index the build uses: "world" or "tagmanager"
    Entities,         \* World.Entities         : id -> *Entity
    tagIndex,         \* World.tagIndex         : tag -> (id -> *Entity)
    idCounter,        \* World.idCounter
    entitiesToDelete, \* World.entitiesToDelete : sequence of ids
    heap,             \* every Entity struct allocated so far: [ID, tags, Components, isAlive]
    entityTags,       \* TagManager.entityTags  : entity -> set of tags
    tmTagIndex,       \* TagManager.tagIndex    : tag -> set of entities
    Behaviors,        \* Dispatcher.Behaviors   : the rule list, fixed at construction
    eventQueue,       \* Dispatcher.eventQueue
    taken,            \* the queue the last Update() took at its start
    log,              \* what the last Update() did, in execution order
    pc,               \* "update" while an Update() call is inside its range loop
    rangePos,         \* the position the range loop of Update() is at
    call,             \* the last call of a pure function or of Each: [fn, args, ret]
    managers,         \* each ComponentManager's data : entity -> *T
    cells,            \* the T values in memory : address -> value; a *T is an address,
                      \* and a state is kept up to the renaming of addresses
    held              \* the *T the host kept from its last Get: [cm, e, ptr]

vars == <<impl, Entities, tagIndex, idCounter, entitiesToDelete, heap,
          entityTags, tmTagIndex, Behaviors, eventQueue, taken, log, pc, rangePos, call,
          managers, cells, held>>

worldVars == <<Entities, tagIndex, idCounter, entitiesToDelete, heap>>
tmVars == <<entityTags, tmTagIndex>>
dispVars == <<Behaviors, eventQueue, taken, log, pc, rangePos>>
compVars == <<managers, cells, held>>

-----------------------------------------------------------------------------
(* Bounds *)

\* CreateEntity is called at most this many times
MaxEntities == 2

\* the host emits only while the queue is shorter than this
MaxQueue == 2

\* CreateEntity calls in the runs of the dispatcher
MaxDispEntities == 1

\* the longest raw string handed to filterTag on its own
MaxTagLen == 3

\* entity values used as component-store keys
MaxCompEntities == 2

\* entities the World creates next to the component stores
MaxCompCreated == 1

\* addresses a T can be allocated at
MaxCells == 6

-----------------------------------------------------------------------------
(* Strings as byte sequences *)

NoStr == <<>>
str_E == <<69>>                \* "E"
str_e == <<101>>               \* "e"
str_eBang == <<101, 33>>       \* "e!"
str_A == <<65>>                \* "A"
str_a == <<97>>                \* "a"
str_Bang == <<33>>             \* "!"
str_Dash == <<45>>             \* "-"
str_ghost == <<103, 95, 57>>   \* "g_9", an id no CreateEntity call returns here

\* prefixes given to CreateEntity: "E" (tag "e") and "-" (empty normal form)
Prefixes == {str_E, str_Dash}

\* raw tags given to AddTag / RemoveTag / HasTag / GetEntitiesByTag
RawTags == {str_E, str_eBang, str_A, str_Bang}

nil == 0

-----------------------------------------------------------------------------
(* entity.go: filterTag, Entity methods *)

\* mutant: the upper bound of the uppercase range is exclusive, 'Z' is dropped
RECURSIVE filterTag_OffByOne(_)
filterTag_OffByOne(s) ==
    IF s = <<>> THEN <<>>
    ELSE LET c0 == Head(s)
             c == IF c0 >= 65 /\ c0 < 90 THEN c0 + 32 ELSE c0
             keep == (c >= 97 /\ c <= 122) \/ (c >= 48 /\ c <= 57) \/ c = 95
         IN (IF keep THEN <<c>> ELSE <<>>) \o filterTag_OffByOne(Tail(s))

RECURSIVE filterTag(_)
filterTag(s) ==
    IF s = <<>> THEN <<>>
    ELSE LET c0 == Head(s)
             c == IF c0 >= 65 /\ c0 <= 90 THEN c0 + 32 ELSE c0
             keep == (c >= 97 /\ c <= 122) \/ (c >= 48 /\ c <= 57) \/ c = 95
         IN (IF keep THEN <<c>> ELSE <<>>) \o filterTag(Tail(s))

\* the %d verb of fmt.Sprintf for a non-negative int
RECURSIVE Itoa(_)
Itoa(n) == IF n < 10 THEN <<48 + n>> ELSE Itoa(n \div 10) \o <<48 + (n % 10)>>

\* fmt.Sprintf("%s_%d", prefix, n)
FormatID(prefix, n) == prefix \o <<95>> \o Itoa(n)

hasTagInternal(e, tag) ==
    IF Len(e.tags) = 0 THEN FALSE
    ELSE \E i \in 1..Len(e.tags) : e.tags[i] = tag

addTagInternal(e, tag) == [e EXCEPT !.tags = Append(e.tags, tag)]

\* mutant: the slice is cut by one without moving the last element first
removeTagInternal_DropLast(e, tag) ==
    IF Len(e.tags) = 0 THEN e
    ELSE IF \E i \in 1..Len(e.tags) : e.tags[i] = tag
         THEN [e EXCEPT !.tags = SubSeq(e.tags, 1, Len(e.tags) - 1)]
         ELSE e

\* first match is overwritten by the last element, then the slice is cut by one
removeTagInternal(e, tag) ==
    IF Len(e.tags) = 0 THEN e
    ELSE IF \E i \in 1..Len(e.tags) : e.tags[i] = tag
         THEN LET i == CHOOSE k \in 1..Len(e.tags) :
                          /\ e.tags[k] = tag
                          /\ \A j \in 1..(k-1) : e.tags[j] # tag
                  n == Len(e.tags)
                  swapped == [e.tags EXCEPT ![i] = e.tags[n]]
              IN [e EXCEPT !.tags = SubSeq(swapped, 1, n - 1)]
         ELSE e

-----------------------------------------------------------------------------
(* Go maps as functions *)

MapGet(m, k, default) == IF k \in DOMAIN m THEN m[k] ELSE default

MapPut(m, k, v) == [x \in (DOMAIN m) \cup {k} |-> IF x = k THEN v ELSE m[x]]

MapDelete(m, k) == [x \in (DOMAIN m) \ {k} |-> m[x]]

EmptyMap == [x \in {} |-> nil]

Range(f) == {f[x] : x \in DOMAIN f}

-----------------------------------------------------------------------------
(* entity.go: World.  The operators take and return the machine state `s`,   *)
(* a record with the fields of World, the heap and the dispatcher's queue    *)
(* and rule list, so that dispatcher actions can call them in sequence.      *)

Cur == [Entities |-> Entities, tagIndex |-> tagIndex, idCounter |-> idCounter,
        entitiesToDelete |-> entitiesToDelete, heap |-> heap,
        eventQueue |-> eventQueue, log |-> log, Behaviors |-> Behaviors]

\* the machine state after the step
Nxt == [Entities |-> Entities', tagIndex |-> tagIndex', idCounter |-> idCounter',
        entitiesToDelete |-> entitiesToDelete', heap |-> heap',
        eventQueue |-> eventQueue', log |-> log', Behaviors |-> Behaviors']

NewWorld == [Entities |-> EmptyMap, tagIndex |-> EmptyMap, idCounter |-> 0,
             entitiesToDelete |-> <<>>]

World_GetEntity(s, id) == MapGet(s.Entities, id, nil)

\* mutant: the check for a tag the entity already has is missing
World_AddTag_NoCheck(s, p, rawtag) ==
    LET tag == filterTag(rawtag) IN
    IF tag = NoStr THEN s
    ELSE LET inner == MapGet(s.tagIndex, tag, EmptyMap) IN
         [s EXCEPT !.heap[p] = addTagInternal(s.heap[p], tag),
                   !.tagIndex = MapPut(s.tagIndex, tag,
                                       MapPut(inner, s.heap[p].ID, p))]

\* mutant: the check for an empty normal form is missing
TagManager_AddTag_NoEmptyCheck(tm, e, rawtag) ==
    LET tag == filterTag(rawtag)
        et == IF e \in DOMAIN tm.entityTags THEN tm.entityTags
              ELSE [x \in (DOMAIN tm.entityTags) \cup {e} |->
                       IF x = e THEN {} ELSE tm.entityTags[x]]
        tm1 == [tm EXCEPT !.entityTags = et]
    IN IF tag \in tm1.entityTags[e] THEN tm1
       ELSE [tm1 EXCEPT !.entityTags[e] = tm1.entityTags[e] \cup {tag},
                        !.tagIndex = [x \in (DOMAIN tm1.tagIndex) \cup {tag} |->
                                         IF x = tag
                                         THEN (IF tag \in DOMAIN tm1.tagIndex
                                               THEN tm1.tagIndex[tag] ELSE {}) \cup {e}
                                         ELSE tm1.tagIndex[x]]]

World_AddTag(s, p, rawtag) ==
    LET tag == filterTag(rawtag) IN
    IF tag = NoStr THEN s
    ELSE IF hasTagInternal(s.heap[p], tag) THEN s
    ELSE LET inner == MapGet(s.tagIndex, tag, EmptyMap) IN
         [s EXCEPT !.heap[p] = addTagInternal(s.heap[p], tag),
                   !.tagIndex = MapPut(s.tagIndex, tag,
                                       MapPut(inner, s.heap[p].ID, p))]

\* mutant: the entity's own list is edited, the index is forgotten
World_RemoveTag_NoIndex(s, p, rawtag) ==
    LET tag == filterTag(rawtag) IN
    IF tag = NoStr THEN s
    ELSE [s EXCEPT !.heap[p] = removeTagInternal(s.heap[p], tag)]

World_RemoveTag(s, p, rawtag) ==
    LET tag == filterTag(rawtag) IN
    IF tag = NoStr THEN s
    ELSE LET s1 == [s EXCEPT !.heap[p] = removeTagInternal(s.heap[p], tag)] IN
         IF tag \in DOMAIN s1.tagIndex
         THEN [s1 EXCEPT !.tagIndex[tag] = MapDelete(s1.tagIndex[tag], s1.heap[p].ID)]
         ELSE s1

\* mutant: the query string is compared as given, without normalization
World_HasTag_NoFilter(s, p, rawtag) == hasTagInternal(s.heap[p], rawtag)

World_HasTag(s, p, rawtag) == hasTagInternal(s.heap[p], filterTag(rawtag))

World_GetTags(s, p) == s.heap[p].tags

\* the result slice, as the set of pointers it holds (map order is unspecified)
World_GetEntitiesByTag(s, rawtag) ==
    LET tag == filterTag(rawtag) IN
    IF tag \in DOMAIN s.tagIndex THEN Range(s.tagIndex[tag]) ELSE {}

\* mutant: destruction purges the tag index at once instead of at Cleanup
World_DestroyEntity_Eager(s, id) ==
    LET p == World_GetEntity(s, id) IN
    IF p = nil \/ ~s.heap[p].isAlive THEN s
    ELSE [s EXCEPT !.heap[p].isAlive = FALSE,
                   !.entitiesToDelete = Append(s.entitiesToDelete, id),
                   !.tagIndex = [t \in DOMAIN s.tagIndex |-> MapDelete(s.tagIndex[t], id)]]

\* mutant: the liveness check is missing, so a dead entity is queued again
World_DestroyEntity_NoAliveCheck(s, id) ==
    LET p == World_GetEntity(s, id) IN
    IF p = nil THEN s
    ELSE [s EXCEPT !.heap[p].isAlive = FALSE,
                   !.entitiesToDelete = Append(s.entitiesToDelete, id)]

\* mutant: the id is queued before the entity is looked at
World_DestroyEntity_QueueFirst(s, id) ==
    LET p == World_GetEntity(s, id)
        s1 == [s EXCEPT !.entitiesToDelete = Append(s.entitiesToDelete, id)]
    IN IF p = nil \/ ~s.heap[p].isAlive THEN s1
       ELSE [s1 EXCEPT !.heap[p].isAlive = FALSE]

\* mutant: the entity is marked but its id is not queued
World_DestroyEntity_NoQueue(s, id) ==
    LET p == World_GetEntity(s, id) IN
    IF p = nil \/ ~s.heap[p].isAlive THEN s
    ELSE [s EXCEPT !.heap[p].isAlive = FALSE]

World_DestroyEntity(s, id) ==
    LET p == World_GetEntity(s, id) IN
    IF p = nil \/ ~s.heap[p].isAlive THEN s
    ELSE [s EXCEPT !.heap[p].isAlive = FALSE,
                   !.entitiesToDelete = Append(s.entitiesToDelete, id)]

World_IsAlive(s, p) == p # nil /\ s.heap[p].isAlive

\* the entity count the tests and the host read: len(w.Entities)
World_EntityCount(s) == Cardinality(DOMAIN s.Entities)

\* mutant: Cleanup leaves the tag index alone
cleanupTags_Skip(ti, e, i) == ti

\* mutant: the tags of the purged entity are dropped from the index whole
cleanupTags_DropTag(ti, e, i) ==
    [t \in DOMAIN ti \ {e.tags[j] : j \in 1..Len(e.tags)} |-> ti[t]]

\* the inner loop of Cleanup: drop entity e from the index of each of its tags
RECURSIVE cleanupTags(_, _, _)
cleanupTags(ti, e, i) ==
    IF i > Len(e.tags) THEN ti
    ELSE LET tag == e.tags[i]
             ti1 == IF tag \in DOMAIN ti
                    THEN [ti EXCEPT ![tag] = MapDelete(ti[tag], e.ID)]
                    ELSE ti
         IN cleanupTags(ti1, e, i + 1)

\* the outer loop of Cleanup, from position i of entitiesToDelete
RECURSIVE cleanupFrom(_, _)
cleanupFrom(s, i) ==
    IF i > Len(s.entitiesToDelete) THEN s
    ELSE LET id == s.entitiesToDelete[i]
             p == World_GetEntity(s, id)
         IN IF p = nil THEN cleanupFrom(s, i + 1)
            ELSE cleanupFrom([s EXCEPT !.tagIndex = cleanupTags(s.tagIndex, s.heap[p], 1),
                                       !.Entities = MapDelete(s.Entities, id)],
                             i + 1)

World_Cleanup_ClearIndex(s) ==
    [cleanupFrom(s, 1) EXCEPT !.entitiesToDelete = <<>>, !.tagIndex = EmptyMap]

\* mutant: the pending list is not emptied
World_Cleanup_KeepList(s) == cleanupFrom(s, 1)

World_Cleanup(s) == [cleanupFrom(s, 1) EXCEPT !.entitiesToDelete = <<>>]

\* mutant: the counter is left out of the id
NewID_NoCounter(s, prefix) == FormatID(prefix, 0)

\* the id CreateEntity gives to the new entity
NewID(s, prefix) == FormatID(prefix, s.idCounter)

\* mutant: the struct literal leaves isAlive at its zero value
World_CreateEntity_Dead(s, prefix) ==
    LET id == NewID(s, prefix)
        p == Len(s.heap) + 1
        s1 == [s EXCEPT !.idCounter = s.idCounter + 1,
                        !.heap = Append(s.heap, [ID |-> id, tags |-> <<>>,
                                                 Components |-> EmptyMap, isAlive |-> FALSE]),
                        !.Entities = MapPut(s.Entities, id, p)]
    IN World_AddTag(s1, p, prefix)

World_CreateEntity_NoTag(s, prefix) ==
    LET id == NewID(s, prefix)
        p == Len(s.heap) + 1
    IN [s EXCEPT !.idCounter = s.idCounter + 1,
                 !.heap = Append(s.heap, [ID |-> id, tags |-> <<>>,
                                          Components |-> EmptyMap, isAlive |-> TRUE]),
                 !.Entities = MapPut(s.Entities, id, p)]

World_CreateEntity(s, prefix) ==
    LET id == NewID(s, prefix)
        p == Len(s.heap) + 1
        s1 == [s EXCEPT !.idCounter = s.idCounter + 1,
                        !.heap = Append(s.heap, [ID |-> id, tags |-> <<>>,
                                                 Components |-> EmptyMap, isAlive |-> TRUE]),
                        !.Entities = MapPut(s.Entities, id, p)]
    IN World_AddTag(s1, p, prefix)

-----------------------------------------------------------------------------
(* Installing a machine state *)

SetWorld(s) ==
    /\ Entities' = s.Entities
    /\ tagIndex' = s.tagIndex
    /\ idCounter' = s.idCounter
    /\ entitiesToDelete' = s.entitiesToDelete
    /\ heap' = s.heap

Pointers == 1..Len(heap)

\* ids a caller can name: every id ever returned, and one never returned
KnownIDs == {heap[p].ID : p \in Pointers} \cup {str_ghost}

-----------------------------------------------------------------------------
(* Host calls on the World *)

CallCreateEntity ==
    /\ impl = "world"
    /\ idCounter < MaxEntities
    /\ \E prefix \in Prefixes : SetWorld(World_CreateEntity(Cur, prefix))
    /\ UNCHANGED <<impl, call, compVars, tmVars, dispVars>>

CallAddTag ==
    /\ impl = "world"
    /\ \E p \in Pointers, t \in RawTags : SetWorld(World_AddTag(Cur, p, t))
    /\ UNCHANGED <<impl, call, compVars, tmVars, dispVars>>

CallRemoveTag ==
    /\ impl = "world"
    /\ \E p \in Pointers, t \in RawTags : SetWorld(World_RemoveTag(Cur, p, t))
    /\ UNCHANGED <<impl, call, compVars, tmVars, dispVars>>

CallDestroyEntity ==
    /\ impl = "world"
    /\ \E id \in KnownIDs : SetWorld(World_DestroyEntity(Cur, id))
    /\ UNCHANGED <<impl, call, compVars, tmVars, dispVars>>

CallCleanup ==
    /\ impl = "world"
    /\ SetWorld(World_Cleanup(Cur))
    /\ UNCHANGED <<impl, call, compVars, tmVars, dispVars>>

-----------------------------------------------------------------------------
(* tags.go: TagManager.  `tm` is a record [entityTags, tagIndex]; a          *)
(* map[...]bool that only ever stores true is the set of its keys.           *)

\* the entity values handed to the TagManager
TMEntities == 0..MaxEntities

NewTagManager == [entityTags |-> EmptyMap, tagIndex |-> EmptyMap]

CurTM == [entityTags |-> entityTags, tagIndex |-> tmTagIndex]

NxtTM == [entityTags |-> entityTags', tagIndex |-> tmTagIndex']

TagManager_AddTag(tm, e, rawtag) ==
    LET tag == filterTag(rawtag) IN
    IF tag = NoStr THEN tm
    ELSE LET et == IF e \in DOMAIN tm.entityTags THEN tm.entityTags
                   ELSE MapPut(tm.entityTags, e, {})
             tm1 == [tm EXCEPT !.entityTags = et]
         IN IF tag \in tm1.entityTags[e] THEN tm1
            ELSE [tm1 EXCEPT !.entityTags[e] = tm1.entityTags[e] \cup {tag},
                             !.tagIndex = MapPut(tm1.tagIndex, tag,
                                                 MapGet(tm1.tagIndex, tag, {}) \cup {e})]

TagManager_RemoveTag(tm, e, rawtag) ==
    LET tag == filterTag(rawtag) IN
    IF tag = NoStr THEN tm
    ELSE LET tm1 == IF e \in DOMAIN tm.entityTags
                    THEN [tm EXCEPT !.entityTags[e] = tm.entityTags[e] \ {tag}]
                    ELSE tm
         IN IF tag \in DOMAIN tm1.tagIndex
            THEN [tm1 EXCEPT !.tagIndex[tag] = tm1.tagIndex[tag] \ {e}]
            ELSE tm1

TagManager_HasTag(tm, e, rawtag) ==
    /\ e \in DOMAIN tm.entityTags
    /\ filterTag(rawtag) \in tm.entityTags[e]

\* the result slice as a set (map order is unspecified); nil is the empty set
TagManager_GetTags(tm, e) == MapGet(tm.entityTags, e, {})

TagManager_GetEntitiesByTag(tm, rawtag) == MapGet(tm.tagIndex, filterTag(rawtag), {})

TagManager_RemoveAllTags(tm, e) ==
    IF e \notin DOMAIN tm.entityTags THEN tm
    ELSE [tm EXCEPT !.tagIndex = [t \in DOMAIN tm.tagIndex |->
                                     IF t \in tm.entityTags[e]
                                     THEN tm.tagIndex[t] \ {e}
                                     ELSE tm.tagIndex[t]],
                    !.entityTags = MapDelete(tm.entityTags, e)]

SetTM(tm) ==
    /\ entityTags' = tm.entityTags
    /\ tmTagIndex' = tm.tagIndex

CallTMAddTag ==
    /\ impl = "tagmanager"
    /\ \E e \in TMEntities, t \in RawTags : SetTM(TagManager_AddTag(CurTM, e, t))
    /\ UNCHANGED <<impl, call, compVars, worldVars, dispVars>>

CallTMRemoveTag ==
    /\ impl = "tagmanager"
    /\ \E e \in TMEntities, t \in RawTags : SetTM(TagManager_RemoveTag(CurTM, e, t))
    /\ UNCHANGED <<impl, call, compVars, worldVars, dispVars>>

TMRemoveAllTagsOf(e) ==
    /\ impl = "tagmanager"
    /\ SetTM(TagManager_RemoveAllTags(CurTM, e))
    /\ UNCHANGED <<impl, call, compVars, worldVars, dispVars>>

CallTMRemoveAllTags == \E e \in TMEntities : TMRemoveAllTagsOf(e)

-----------------------------------------------------------------------------
(* ComponentManager[T].  `c` is a record [managers, cells]: the data map of  *)
(* every manager the host built, and the T values their entries point to.    *)

\* the managers the host builds, one per component type
Managers == {"positions", "healths"}

\* the entity values used as keys
CompEntities == 0..(MaxCompEntities - 1)

\* the component values the host passes to Add
CompValues == {10, 20}

\* the value the host writes through a pointer
WriteValues == {999}

NewComponentManager == EmptyMap

CurC == [managers |-> managers, cells |-> cells]

\* the address of a newly allocated T: one no T in memory has
new(c) == CHOOSE a \in 1..MaxCells : a \notin DOMAIN c.cells /\ \A b \in 1..(a - 1) : b \in DOMAIN c.cells

ComponentManager_Add_KeepFirst(c, cm, e, component) ==
    IF e \in DOMAIN c.managers[cm]
    THEN c
    ELSE [c EXCEPT !.cells = MapPut(@, new(c), component),
                   !.managers[cm] = MapPut(@, e, new(c))]

\* cm.data[e] = &component : the parameter is a T of its own, and the entry
\* is made to point at it
ComponentManager_Add(c, cm, e, component) ==
    [c EXCEPT !.cells = MapPut(@, new(c), component),
              !.managers[cm] = MapPut(@, e, new(c))]

ComponentManager_Get(c, cm, e) == MapGet(c.managers[cm], e, nil)

ComponentManager_Remove_Everywhere(c, cm, e) ==
    [c EXCEPT !.managers = [m \in Managers |-> MapDelete(c.managers[m], e)]]

ComponentManager_Remove_Clear(c, cm, e) ==
    [c EXCEPT !.managers[cm] = EmptyMap]

ComponentManager_Remove(c, cm, e) ==
    [c EXCEPT !.managers[cm] = MapDelete(@, e)]

ComponentManager_Has(c, cm, e) == e \in DOMAIN c.managers[cm]

ComponentManager_Count(c, cm) == Cardinality(DOMAIN c.managers[cm])

\* the callbacks the host passes to Each: one that only reads the
\* component, and one that writes v through the pointer it is given
Callbacks ==
    {[kind |-> "read", v |-> 0]} \cup {[kind |-> "write", v |-> v] : v \in WriteValues}

\* fn(e, component) for a callback of Callbacks
invoke(c, fn, e, component) ==
    IF fn.kind = "write" THEN [c EXCEPT !.cells[component] = fn.v] ELSE c

\* the orders in which a range over the map m can yield its keys
RangeOrders(m) ==
    {o \in [1..Cardinality(DOMAIN m) -> DOMAIN m] :
        \A i, j \in DOMAIN o : i # j => o[i] # o[j]}

RECURSIVE eachFrom_Twice(_, _, _, _, _, _)
eachFrom_Twice(c, cm, order, i, fn, visits) ==
    IF i > Len(order) THEN [c |-> c, visits |-> visits]
    ELSE LET e == order[i]
             component == c.managers[cm][e]
             v == [e |-> e, component |-> component]
         IN eachFrom_Twice(invoke(c, fn, e, component), cm, order, i + 1, fn,
                           IF i = 1 THEN visits \o <<v, v>> ELSE Append(visits, v))

\* the range loop of Each from position i on; visits records every call of
\* fn: the entity and the pointer it was given
RECURSIVE eachFrom(_, _, _, _, _, _)
eachFrom(c, cm, order, i, fn, visits) ==
    IF i > Len(order) THEN [c |-> c, visits |-> visits]
    ELSE LET e == order[i]
             component == c.managers[cm][e]
         IN eachFrom(invoke(c, fn, e, component), cm, order, i + 1, fn,
                     Append(visits, [e |-> e, component |-> component]))

ComponentManager_Each(c, cm, order, fn) == eachFrom(c, cm, order, 1, fn, <<>>)

\* the host holds no pointer
NoRef == [cm |-> "none", e |-> 0, ptr |-> nil]

\* *ptr = v, a write through a pointer the host holds
writeThrough_Entry(c, ref, v) ==
    LET cur == ComponentManager_Get(c, ref.cm, ref.e)
    IN IF cur = nil THEN c ELSE [c EXCEPT !.cells[cur] = v]

writeThrough(c, ref, v) == [c EXCEPT !.cells[ref.ptr] = v]

\* An address carries no information but which pointers are equal, and the
\* runtime frees every T nothing points to, so memory is kept in one
\* arrangement: the T of entry (cm, e) at slotAddr(cm, e), a T that only the
\* host still points to at staleAddr, and nothing else.
slotAddr(cm, e) == (IF cm = "positions" THEN 0 ELSE MaxCompEntities) + e + 1

staleAddr == 2 * MaxCompEntities + 1

present(c) == {ce \in Managers \X CompEntities : ce[2] \in DOMAIN c.managers[ce[1]]}

entryOf(c, a) == {ce \in present(c) : c.managers[ce[1]][ce[2]] = a}

moved(c, a) ==
    IF entryOf(c, a) = {} THEN staleAddr
    ELSE LET ce == CHOOSE ce \in entryOf(c, a) : TRUE IN slotAddr(ce[1], ce[2])

arrange(c, ref) ==
    [c |-> [managers |-> [cm \in Managers |->
                            [e \in DOMAIN c.managers[cm] |-> slotAddr(cm, e)]],
            cells |-> [b \in {slotAddr(ce[1], ce[2]) : ce \in present(c)}
                              \cup (IF ref.ptr # nil /\ entryOf(c, ref.ptr) = {}
                                    THEN {staleAddr} ELSE {}) |->
                         IF b = staleAddr THEN c.cells[ref.ptr]
                         ELSE LET ce == CHOOSE ce \in present(c) : slotAddr(ce[1], ce[2]) = b
                              IN c.cells[c.managers[ce[1]][ce[2]]]]],
     ref |-> IF ref.ptr = nil THEN ref ELSE [ref EXCEPT !.ptr = moved(c, ref.ptr)]]

-----------------------------------------------------------------------------
(* Specification of the registry and its tag index *)

\* no pure function has been called yet
NoCall == [fn |-> "none", args |-> <<>>, ret |-> <<>>]

InitCommon ==
    /\ Entities = NewWorld.Entities
    /\ tagIndex = NewWorld.tagIndex
    /\ idCounter = NewWorld.idCounter
    /\ entitiesToDelete = NewWorld.entitiesToDelete
    /\ heap = <<>>
    /\ entityTags = NewTagManager.entityTags
    /\ tmTagIndex = NewTagManager.tagIndex
    /\ eventQueue = <<>>
    /\ taken = <<>>
    /\ log = <<>>
    /\ pc = "idle"
    /\ rangePos = 0
    /\ call = NoCall
    /\ managers = [cm \in Managers |-> NewComponentManager]
    /\ cells = EmptyMap
    /\ held = NoRef

Init ==
    /\ impl \in {"world", "tagmanager"}
    /\ Behaviors = <<>>
    /\ InitCommon

Next ==
    \/ CallCreateEntity
    \/ CallAddTag
    \/ CallRemoveTag
    \/ CallDestroyEntity
    \/ CallCleanup
    \/ CallTMAddTag
    \/ CallTMRemoveTag
    \/ CallTMRemoveAllTags

Spec == Init /\ [][Next]_vars

-----------------------------------------------------------------------------
(* core.Event, behavior.Trigger, behavior.Behavior *)

\* the id of the first entity created with prefix "E"
id0 == FormatID(str_E, 0)

Event(type, a, b, payload) == [Type |-> type, A |-> a, B |-> b, Payload |-> payload]

evLoop == Event("loop", id0, NoStr, "ok")
evStart == Event("START", id0, NoStr, "ok")
evStartNo == Event("START", NoStr, id0, "no")
evPing == Event("PING", NoStr, NoStr, "ok")

\* events the host emits
ExtEvents == {evLoop, evStart, evStartNo}

\* mutant: only participant A is compared with the filter
Matches_OnlyA(t, ev) ==
    IF ev.Type # t.Type THEN FALSE
    ELSE IF Len(t.Entities) = 0 THEN TRUE
    ELSE \E i \in 1..Len(t.Entities) : ev.A = t.Entities[i]

\* trigger.go: Trigger.Matches
Matches(t, ev) ==
    IF ev.Type # t.Type THEN FALSE
    ELSE IF Len(t.Entities) = 0 THEN TRUE
    ELSE \E i \in 1..Len(t.Entities) : ev.A = t.Entities[i] \/ ev.B = t.Entities[i]

Trigger(type, entities) == [Type |-> type, Entities |-> entities]

Behavior(id, trigger, conditions, actions) ==
    [ID |-> id, Trigger |-> trigger, Conditions |-> conditions, Actions |-> actions]

-----------------------------------------------------------------------------
(* Implementations of the Condition and Action interfaces.  AlwaysTrue and   *)
(* DebugLog are the repository's; the others are the kinds its documents     *)
(* describe, written against Context and World.                              *)

AlwaysTrue == [kind |-> "AlwaysTrue", arg |-> NoStr]
PayloadIsOk == [kind |-> "PayloadIsOk", arg |-> NoStr]
IsAliveA == [kind |-> "IsAliveA", arg |-> NoStr]
HasTagA(rawtag) == [kind |-> "HasTagA", arg |-> rawtag]

DebugLog == [kind |-> "DebugLog", arg |-> NoStr]
EmitPing == [kind |-> "Emit", arg |-> evPing]
EmitLoop == [kind |-> "Emit", arg |-> evLoop]
DestroyA == [kind |-> "DestroyA", arg |-> NoStr]
AddTagA(rawtag) == [kind |-> "AddTagA", arg |-> rawtag]
RemoveTagA(rawtag) == [kind |-> "RemoveTagA", arg |-> rawtag]

\* Context.GetEntity
Context_GetEntity(s, id) == World_GetEntity(s, id)

\* mutant: the context holds the registry as it was when Update() was called
Evaluate_Snapshot(c, s, ev) ==
    CASE c.kind = "AlwaysTrue" -> TRUE
      [] c.kind = "PayloadIsOk" -> ev.Payload = "ok"
      [] c.kind = "IsAliveA" -> World_IsAlive(Cur, Context_GetEntity(Cur, ev.A))
      [] c.kind = "HasTagA" ->
            LET p == Context_GetEntity(Cur, ev.A) IN
            IF p = nil THEN FALSE ELSE World_HasTag(Cur, p, c.arg)

\* Condition.Evaluate(ctx), ctx = (the live world in s, ev)
Evaluate(c, s, ev) ==
    CASE c.kind = "AlwaysTrue" -> TRUE
      [] c.kind = "PayloadIsOk" -> ev.Payload = "ok"
      [] c.kind = "IsAliveA" -> World_IsAlive(s, Context_GetEntity(s, ev.A))
      [] c.kind = "HasTagA" ->
            LET p == Context_GetEntity(s, ev.A) IN
            IF p = nil THEN FALSE ELSE World_HasTag(s, p, c.arg)

\* Dispatcher.Emit
Dispatcher_Emit(s, ev) == [s EXCEPT !.eventQueue = Append(s.eventQueue, ev)]

\* Action.Execute(ctx)
Execute(a, s, ev) ==
    CASE a.kind = "DebugLog" -> s
      [] a.kind = "Emit" -> Dispatcher_Emit(s, a.arg)
      [] a.kind = "DestroyA" -> World_DestroyEntity(s, ev.A)
      [] a.kind = "AddTagA" ->
            LET p == Context_GetEntity(s, ev.A) IN
            IF p = nil THEN s ELSE World_AddTag(s, p, a.arg)
      [] a.kind = "RemoveTagA" ->
            LET p == Context_GetEntity(s, ev.A) IN
            IF p = nil THEN s ELSE World_RemoveTag(s, p, a.arg)

-----------------------------------------------------------------------------
(* The rule lists a Dispatcher is constructed with *)

\* a loop rule whose action removes what its condition asks for
RulesLoopUntag ==
    <<Behavior("untag", Trigger("loop", <<>>), <<HasTagA(str_e)>>, <<DebugLog, RemoveTagA(str_E)>>)>>

\* a loop rule that runs as long as the entity is alive
RulesLoopAlive ==
    <<Behavior("alive", Trigger("loop", <<id0>>), <<AlwaysTrue, IsAliveA>>, <<DebugLog>>)>>

\* a loop rule whose action emits another event
RulesLoopPing ==
    <<Behavior("loopping", Trigger("loop", <<>>), <<PayloadIsOk>>, <<EmitPing, DebugLog>>)>>

\* START emits PING, and no rule matches PING
RulesStartPing ==
    <<Behavior("start", Trigger("START", <<>>), <<AlwaysTrue>>, <<EmitPing>>)>>

\* several rules on one event: no conditions, a filter that never matches,
\* conditions that fail first or second, effects of one rule read by the next
RulesMany ==
    <<Behavior("r1", Trigger("START", <<>>), <<>>, <<AddTagA(str_A)>>),
      Behavior("r2", Trigger("START", <<str_ghost>>), <<>>, <<DestroyA>>),
      Behavior("r3", Trigger("START", <<id0>>), <<PayloadIsOk, HasTagA(str_a)>>,
               <<EmitPing, RemoveTagA(str_a), DestroyA>>),
      Behavior("r4", Trigger("START", <<>>), <<PayloadIsOk, AlwaysTrue>>, <<DebugLog>>),
      Behavior("r5", Trigger("loop", <<>>), <<>>, <<EmitPing>>),
      Behavior("r6", Trigger("START", <<>>), <<IsAliveA>>, <<DebugLog>>)>>

\* a loop rule stopped by its second condition of three, before another loop rule
RulesLoopGuarded ==
    <<Behavior("guarded", Trigger("loop", <<>>), <<AlwaysTrue, HasTagA(str_e), PayloadIsOk>>,
               <<RemoveTagA(str_E)>>),
      Behavior("after", Trigger("loop", <<>>), <<>>, <<DebugLog>>)>>

\* two loop rules without actions whose conditions always pass
RulesLoopTwice ==
    <<Behavior("twice1", Trigger("loop", <<>>), <<>>, <<>>),
      Behavior("twice2", Trigger("loop", <<>>), <<AlwaysTrue>>, <<>>)>>

\* rules without actions, a rule for an event type nothing emits, and rules
\* that emit different events on one event
RulesInert ==
    <<Behavior("noact", Trigger("START", <<>>), <<PayloadIsOk>>, <<>>),
      Behavior("emitter", Trigger("START", <<>>), <<>>, <<EmitPing, AddTagA(str_A), EmitLoop>>),
      Behavior("nomatch", Trigger("PONG", <<>>), <<>>, <<DestroyA>>),
      Behavior("spin", Trigger("loop", <<>>), <<IsAliveA>>, <<>>),
      Behavior("late", Trigger("START", <<>>), <<>>, <<EmitPing>>)>>

RuleSets == {RulesLoopUntag, RulesLoopAlive, RulesLoopPing, RulesLoopGuarded,
             RulesStartPing, RulesMany, RulesLoopTwice, RulesInert}

-----------------------------------------------------------------------------
(* part_003: Dispatcher.  `pos` is the position of the event in the queue    *)
(* Update took; the log records each step Update makes.                      *)

LogEntry(op, pos, rule, n, ok) == [op |-> op, pos |-> pos, rule |-> rule, n |-> n, ok |-> ok]

Logged(s, entry) == [s EXCEPT !.log = Append(s.log, entry)]

\* mutant: a failed condition does not stop the rule
RECURSIVE evalConditions_Ignore(_, _, _, _, _)
evalConditions_Ignore(s, j, ev, pos, k) ==
    IF k > Len(s.Behaviors[j].Conditions) THEN [st |-> s, ok |-> TRUE]
    ELSE LET r == Evaluate(s.Behaviors[j].Conditions[k], s, ev)
         IN evalConditions_Ignore(Logged(s, LogEntry("cond", pos, j, k, r)), j, ev, pos, k + 1)

\* mutant: the break is missing, every condition is evaluated
RECURSIVE evalConditions_NoBreak(_, _, _, _, _)
evalConditions_NoBreak(s, j, ev, pos, k) ==
    IF k > Len(s.Behaviors[j].Conditions) THEN [st |-> s, ok |-> TRUE]
    ELSE LET r == Evaluate(s.Behaviors[j].Conditions[k], s, ev)
             rest == evalConditions_NoBreak(Logged(s, LogEntry("cond", pos, j, k, r)),
                                            j, ev, pos, k + 1)
         IN [st |-> rest.st, ok |-> r /\ rest.ok]

\* the condition loop of rule j from condition k: stops at the first false
RECURSIVE evalConditions(_, _, _, _, _)
evalConditions(s, j, ev, pos, k) ==
    IF k > Len(s.Behaviors[j].Conditions) THEN [st |-> s, ok |-> TRUE]
    ELSE LET r == Evaluate(s.Behaviors[j].Conditions[k], s, ev)
             s1 == Logged(s, LogEntry("cond", pos, j, k, r))
         IN IF ~r THEN [st |-> s1, ok |-> FALSE]
            ELSE evalConditions(s1, j, ev, pos, k + 1)

\* the action loop of rule j from action k
RECURSIVE runActions(_, _, _, _, _)
runActions(s, j, ev, pos, k) ==
    IF k > Len(s.Behaviors[j].Actions) THEN s
    ELSE runActions(Execute(s.Behaviors[j].Actions[k],
                            Logged(s, LogEntry("act", pos, j, k, TRUE)), ev),
                    j, ev, pos, k + 1)

\* mutant: the reserved type is compared in the wrong case, nothing is re-emitted
loopBack_WrongCase(s, j, ev, pos) ==
    IF s.Behaviors[j].Trigger.Type = "Loop"
    THEN Dispatcher_Emit(Logged(s, LogEntry("loop", pos, j, 0, TRUE)), ev)
    ELSE s

\* mutant: the event is re-emitted only if the next queue does not hold it yet
loopBack_Once(s, j, ev, pos) ==
    IF s.Behaviors[j].Trigger.Type = "loop" /\ \A i \in 1..Len(s.eventQueue) : s.eventQueue[i] # ev
    THEN Dispatcher_Emit(Logged(s, LogEntry("loop", pos, j, 0, TRUE)), ev)
    ELSE s

\* mutant: every rule that ran re-emits the event, whatever its trigger type
loopBack_Always(s, j, ev, pos) ==
    Dispatcher_Emit(Logged(s, LogEntry("loop", pos, j, 0, TRUE)), ev)

\* step 5 of processEvent: a rule of trigger type "loop" re-emits the event
loopBack(s, j, ev, pos) ==
    IF s.Behaviors[j].Trigger.Type = "loop"
    THEN Dispatcher_Emit(Logged(s, LogEntry("loop", pos, j, 0, TRUE)), ev)
    ELSE s

\* the body of processEvent's loop for rule j
applyRule(s, j, ev, pos) ==
    LET m == Matches(s.Behaviors[j].Trigger, ev)
        s0 == Logged(s, LogEntry("match", pos, j, 0, m))
    IN IF ~m THEN s0
       ELSE LET c == evalConditions(s0, j, ev, pos, 1)
            IN IF ~c.ok THEN c.st
               ELSE loopBack(runActions(c.st, j, ev, pos, 1), j, ev, pos)

RECURSIVE processRules(_, _, _, _)
processRules(s, j, ev, pos) ==
    IF j > Len(s.Behaviors) THEN s
    ELSE processRules(applyRule(s, j, ev, pos), j + 1, ev, pos)

\* mutant: the rules are walked from the last registered to the first
RECURSIVE processRulesDown(_, _, _, _)
processRulesDown(s, j, ev, pos) ==
    IF j < 1 THEN s
    ELSE processRulesDown(applyRule(s, j, ev, pos), j - 1, ev, pos)

processEvent_Reversed(s, ev, pos) == processRulesDown(s, Len(s.Behaviors), ev, pos)

\* mutant: an event that no rule matched is put back into the queue
processEvent_RequeueUnmatched(s, ev, pos) ==
    LET s1 == processRules(s, 1, ev, pos) IN
    IF \E j \in 1..Len(s.Behaviors) : Matches(s.Behaviors[j].Trigger, ev) THEN s1
    ELSE Dispatcher_Emit(s1, ev)

processEvent(s, ev, pos) == processRules(s, 1, ev, pos)

RECURSIVE processQueue(_, _, _)
processQueue(s, queue, pos) ==
    IF pos > Len(queue) THEN s
    ELSE processQueue(processEvent(s, queue[pos], pos), queue, pos + 1)

\* mutant: the live queue is not replaced, taken events stay in it
takeQueue_Keep(s) == s

\* d.eventQueue = nil, after the local copy `queue` was taken
takeQueue(s) == [s EXCEPT !.eventQueue = <<>>]

\* mutant: the pass continues the trace of the passes before it
Dispatcher_Update_KeepLog(s) ==
    IF Len(s.eventQueue) = 0 THEN s
    ELSE processQueue(takeQueue(s), s.eventQueue, 1)

\* Dispatcher.Update; the log starts empty at each call
Dispatcher_Update(s) ==
    LET s0 == [s EXCEPT !.log = <<>>] IN
    IF Len(s0.eventQueue) = 0 THEN s0
    ELSE processQueue(takeQueue(s0), s0.eventQueue, 1)

-----------------------------------------------------------------------------
(* Host calls on the Dispatcher *)

\* the longest queue Update may leave in a run of the model
QueueCap == 2 * MaxQueue

CallEmit ==
    /\ Len(eventQueue) < MaxQueue
    /\ \E ev \in ExtEvents : eventQueue' = Dispatcher_Emit(Cur, ev).eventQueue
    /\ UNCHANGED <<impl, call, compVars, worldVars, tmVars, Behaviors, taken, log, pc, rangePos>>

CallUpdate ==
    /\ LET s == Dispatcher_Update(Cur) IN
         /\ Len(s.eventQueue) <= QueueCap
         /\ SetWorld(s)
         /\ eventQueue' = s.eventQueue
         /\ log' = s.log
    /\ taken' = eventQueue
    /\ UNCHANGED <<impl, call, compVars, tmVars, Behaviors, pc, rangePos>>

\* the host creates the entities the events name
CallCreateForRules ==
    /\ idCounter < MaxDispEntities
    /\ SetWorld(World_CreateEntity(Cur, str_E))
    /\ UNCHANGED <<impl, call, compVars, tmVars, dispVars>>

-----------------------------------------------------------------------------
(* Specification of the dispatcher over a World *)

InitDisp ==
    /\ impl = "world"
    /\ Behaviors \in RuleSets
    /\ InitCommon

NextDisp ==
    \/ CallEmit
    \/ CallUpdate
    \/ CallCreateForRules
    \/ CallDestroyEntity
    \/ CallCleanup

SpecDisp == InitDisp /\ [][NextDisp]_vars

-----------------------------------------------------------------------------
(* Dispatcher.Update one iteration at a time.  The host is single-threaded:  *)
(* it calls nothing while an Update() call is running, and a running call    *)
(* keeps running.                                                            *)

\* mutant: the loop walks the live queue, which grows while it is walked
rangedQueue_Live(s, tk) == tk \o s.eventQueue

\* the slice the range statement walks: the local `queue`, evaluated once
rangedQueue(s, tk) == tk

\* Update() is called: the early return, or the queue swap.  As in CallUpdate,
\* a run of the model makes the call while the queue it leaves fits QueueCap.
UpdateBegin ==
    /\ pc = "idle"
    /\ Len(Dispatcher_Update(Cur).eventQueue) <= QueueCap
    /\ taken' = eventQueue
    /\ log' = <<>>
    /\ IF Len(eventQueue) = 0
       THEN pc' = "idle" /\ rangePos' = 0 /\ UNCHANGED eventQueue
       ELSE pc' = "update" /\ rangePos' = 1 /\ eventQueue' = takeQueue(Cur).eventQueue
    /\ UNCHANGED <<impl, call, compVars, worldVars, tmVars, Behaviors>>

\* one iteration of `for _, ev := range queue`
UpdateEvent ==
    /\ pc = "update"
    /\ rangePos <= Len(rangedQueue(Cur, taken))
    /\ LET s == processEvent(Cur, rangedQueue(Cur, taken)[rangePos], rangePos) IN
         /\ Len(s.eventQueue) <= QueueCap
         /\ SetWorld(s)
         /\ eventQueue' = s.eventQueue
         /\ log' = s.log
    /\ rangePos' = rangePos + 1
    /\ UNCHANGED <<impl, call, compVars, tmVars, Behaviors, taken, pc>>

\* the range loop is exhausted and Update() returns
UpdateReturn ==
    /\ pc = "update"
    /\ rangePos > Len(rangedQueue(Cur, taken))
    /\ pc' = "idle"
    /\ UNCHANGED <<impl, call, compVars, worldVars, tmVars, Behaviors, eventQueue, taken, log, rangePos>>

HostEmit == pc = "idle" /\ CallEmit

HostCreate == pc = "idle" /\ CallCreateForRules

HostDestroy == pc = "idle" /\ CallDestroyEntity

HostCleanup == pc = "idle" /\ CallCleanup

NextSteps ==
    \/ UpdateBegin
    \/ UpdateEvent
    \/ UpdateReturn
    \/ HostEmit
    \/ HostCreate
    \/ HostDestroy
    \/ HostCleanup

\* the running call goes on to its next iteration: the loop guard and the
\* advance of the range position, without the body of the iteration
UpdateAdvances ==
    /\ pc = "update"
    /\ rangePos <= Len(rangedQueue(Cur, taken))
    /\ rangePos' = rangePos + 1

SpecSteps ==
    InitDisp /\ [][NextSteps]_vars /\ WF_rangePos(UpdateAdvances) /\ WF_vars(UpdateReturn)

-----------------------------------------------------------------------------
(* Calls of the pure functions, on inputs drawn from bounded sets.  A result *)
(* depends on the arguments alone, so a run makes one call.                  *)

\* type labels that differ in case only, and the reserved one
TriggerTypes == {"START", "start", "loop"}

\* participant identifiers: blank, an entity's id, another id
Participants == {NoStr, id0, str_ghost}

\* entity filters of a trigger
Filters == {<<>>, <<id0>>, <<str_ghost>>, <<str_ghost, id0>>, <<NoStr>>}

PureTriggers == {Trigger(ty, f) : ty \in TriggerTypes, f \in Filters}

PureEvents == {Event(ty, a, b, "ok") : ty \in TriggerTypes, a \in Participants, b \in Participants}

CallMatches ==
    /\ call = NoCall
    /\ \E t \in PureTriggers, ev \in PureEvents :
         call' = [fn |-> "Matches", args |-> <<t, ev>>, ret |-> Matches(t, ev)]
    /\ UNCHANGED <<impl, compVars, worldVars, tmVars, dispVars>>

\* bytes at and around the edges of the ranges filterTag tests:
\* '@' A Z '[', '`' a z '{', '/' 0 9 ':', '_', '!', and a byte above 127
TagBytes == {64, 65, 90, 91, 96, 97, 122, 123, 47, 48, 57, 58, 95, 33, 200}

\* every string over TagBytes of length at most n
StringsUpTo(n) == UNION {[1..k -> TagBytes] : k \in 0..n}

CallFilterTag ==
    /\ call = NoCall
    /\ \E r \in StringsUpTo(MaxTagLen) :
         call' = [fn |-> "filterTag", args |-> <<r>>, ret |-> filterTag(r)]
    /\ UNCHANGED <<impl, compVars, worldVars, tmVars, dispVars>>

InitPure ==
    /\ impl = "none"
    /\ Behaviors = <<>>
    /\ InitCommon

NextPure ==
    \/ CallMatches
    \/ CallFilterTag

SpecPure == InitPure /\ [][NextPure]_vars

-----------------------------------------------------------------------------
(* Host calls on the component managers, next to a World whose entities'     *)
(* numbers are the keys                                                      *)

\* the state of the managers, and the host's pointer, after a call
AddResult(cm, e, v) == arrange(ComponentManager_Add(CurC, cm, e, v), held)

RemoveResult(cm, e) == arrange(ComponentManager_Remove(CurC, cm, e), held)

GetResult(cm, e) ==
    arrange(CurC, IF ComponentManager_Get(CurC, cm, e) = nil THEN NoRef
                  ELSE [cm |-> cm, e |-> e, ptr |-> ComponentManager_Get(CurC, cm, e)])

WriteResult(v) == arrange(writeThrough(CurC, held, v), held)

EachResult(cm, order, fn) ==
    LET r == ComponentManager_Each(CurC, cm, order, fn)
    IN [c |-> arrange(r.c, held).c, ref |-> arrange(r.c, held).ref, visits |-> r.visits]

SetComp(r) ==
    /\ managers' = r.c.managers
    /\ cells' = r.c.cells
    /\ held' = r.ref

\* Add needs an address for the new T
CanAdd == Cardinality(DOMAIN cells) < MaxCells

CompAdd ==
    /\ impl = "components"
    /\ CanAdd
    /\ \E cm \in Managers, e \in CompEntities, v \in CompValues : SetComp(AddResult(cm, e, v))
    /\ call' = NoCall
    /\ UNCHANGED <<impl, worldVars, tmVars, dispVars>>

CompRemove ==
    /\ impl = "components"
    /\ \E cm \in Managers, e \in CompEntities : SetComp(RemoveResult(cm, e))
    /\ call' = NoCall
    /\ UNCHANGED <<impl, worldVars, tmVars, dispVars>>

\* pos := cm.Get(e)
CompGet ==
    /\ impl = "components"
    /\ \E cm \in Managers, e \in CompEntities : SetComp(GetResult(cm, e))
    /\ call' = NoCall
    /\ UNCHANGED <<impl, worldVars, tmVars, dispVars>>

\* pos.X = v
CompWrite ==
    /\ impl = "components"
    /\ held # NoRef
    /\ \E v \in WriteValues : SetComp(WriteResult(v))
    /\ call' = NoCall
    /\ UNCHANGED <<impl, worldVars, tmVars, dispVars>>

CompEach ==
    /\ impl = "components"
    /\ \E cm \in Managers, fn \in Callbacks :
         \E order \in RangeOrders(managers[cm]) :
            /\ SetComp(EachResult(cm, order, fn))
            /\ call' = [fn |-> "Each", args |-> <<cm, fn>>,
                        ret |-> EachResult(cm, order, fn).visits]
    /\ UNCHANGED <<impl, worldVars, tmVars, dispVars>>

CompCreateEntity ==
    /\ impl = "components"
    /\ idCounter < MaxCompCreated
    /\ SetWorld(World_CreateEntity(Cur, str_E))
    /\ UNCHANGED <<impl, call, compVars, tmVars, dispVars>>

CompDestroyEntity ==
    /\ impl = "components"
    /\ \E id \in KnownIDs : SetWorld(World_DestroyEntity(Cur, id))
    /\ UNCHANGED <<impl, call, compVars, tmVars, dispVars>>

CompCleanup ==
    /\ impl = "components"
    /\ SetWorld(World_Cleanup(Cur))
    /\ UNCHANGED <<impl, call, compVars, tmVars, dispVars>>

RegistryStep == CompCreateEntity \/ CompDestroyEntity \/ CompCleanup

InitComp ==
    /\ impl = "components"
    /\ Behaviors = <<>>
    /\ InitCommon

NextComp ==
    \/ CompAdd
    \/ CompRemove
    \/ CompGet
    \/ CompWrite
    \/ CompEach
    \/ CompCreateEntity
    \/ CompDestroyEntity
    \/ CompCleanup

SpecComp == InitComp /\ [][NextComp]_vars

-----------------------------------------------------------------------------
(* Observations used by the properties *)

\* raw strings the queries are asked with (their normal forms included)
QueryTags == RawTags \cup Prefixes \cup {filterTag(r) : r \in RawTags \cup Prefixes}

\* p is the struct the registry holds under its id
Registered(p) == World_GetEntity(Cur, heap[p].ID) = p

\* p was registered once and has been removed by Cleanup
Purged(p) == World_GetEntity(Cur, heap[p].ID) = nil

Pending == {entitiesToDelete[i] : i \in 1..Len(entitiesToDelete)}

\* the decimal number after the last underscore of an id
RECURSIVE Atoi(_)
Atoi(d) == IF d = <<>> THEN 0
           ELSE Atoi(SubSeq(d, 1, Len(d) - 1)) * 10 + (d[Len(d)] - 48)

CounterPart(id) ==
    LET i == CHOOSE k \in 1..Len(id) : id[k] = 95 /\ \A j \in (k+1)..Len(id) : id[j] # 95
    IN Atoi(SubSeq(id, i + 1, Len(id)))

-----------------------------------------------------------------------------
(* C1 *)

C1_WorldConsistent ==
    \A p \in Pointers, t \in QueryTags :
        /\ p \in World_GetEntitiesByTag(Cur, t) => World_HasTag(Cur, p, t)
        /\ Registered(p) /\ World_HasTag(Cur, p, t) => p \in World_GetEntitiesByTag(Cur, t)
        /\ World_HasTag(Cur, p, t) <=>
               \E i \in 1..Len(World_GetTags(Cur, p)) : World_GetTags(Cur, p)[i] = filterTag(t)

C1_TagManagerConsistent ==
    \A e \in TMEntities, t \in QueryTags :
        /\ e \in TagManager_GetEntitiesByTag(CurTM, t) <=> TagManager_HasTag(CurTM, e, t)
        /\ TagManager_HasTag(CurTM, e, t) <=> filterTag(t) \in TagManager_GetTags(CurTM, e)

-----------------------------------------------------------------------------
(* C5 *)

C5_PendingStillQueryable ==
    \A id \in Pending :
        LET p == World_GetEntity(Cur, id) IN
        /\ p # nil
        /\ ~World_IsAlive(Cur, p)
        /\ \A t \in QueryTags : World_HasTag(Cur, p, t) => p \in World_GetEntitiesByTag(Cur, t)

C5_DestroyKeepsTags ==
    \A id \in KnownIDs :
        LET p == World_GetEntity(Cur, id) IN
        (World_IsAlive(Cur, p) /\ SetWorld(World_DestroyEntity(Cur, id))) =>
            /\ ~World_IsAlive(Nxt, p)
            /\ World_GetEntity(Nxt, id) = p
            /\ \A t \in QueryTags :
                 /\ World_HasTag(Nxt, p, t) = World_HasTag(Cur, p, t)
                 /\ World_GetEntitiesByTag(Nxt, t) = World_GetEntitiesByTag(Cur, t)

\* C5: deferred deletion.  destroy(e) of a live entity makes is_alive(e) false,
\* leaves e found by registry lookup, and changes no has_tag answer and no
\* entities_with_tag result; and as long as e is pending (until the next
\* cleanup) it is found by lookup, is not alive, and is listed under each of
\* its tags.
C5_DeferredDeletion == []C5_PendingStillQueryable /\ [][C5_DestroyKeepsTags]_vars

\* every created entity carries tag "e", one of them is destroyed and not yet
\* cleaned, and the tag query still returns all of them
C5_Witness ==
    /\ impl = "world"
    /\ Len(heap) = MaxEntities
    /\ Cardinality(World_GetEntitiesByTag(Cur, str_e)) = MaxEntities
    /\ \E id \in Pending : World_GetEntity(Cur, id) \in World_GetEntitiesByTag(Cur, str_e)
    /\ \E p \in Pointers : World_IsAlive(Cur, p)

-----------------------------------------------------------------------------
(* C6 *)

C6_CleanupPurges ==
    CallCleanup =>
        /\ entitiesToDelete' = <<>>
        /\ \A id \in Pending :
             /\ World_GetEntity(Nxt, id) = nil
             /\ \A t \in QueryTags :
                  \A q \in World_GetEntitiesByTag(Nxt, t) : heap'[q].ID # id

C6_RemoveAllTagsPurges ==
    \A e \in TMEntities :
        TMRemoveAllTagsOf(e) =>
            \A t \in QueryTags : e \notin TagManager_GetEntitiesByTag(NxtTM, t)

\* C6: after cleanup() returns, every entity that was in the pending-deletion
\* list is absent from the registry (lookup gives nil), is returned by
\* entities_with_tag(t) for no tag t, and the pending-deletion list is empty;
\* the TagManager's RemoveAllTags(e) leaves e under no tag of the index.
C6_CleanupRemoves == [][C6_CleanupPurges /\ C6_RemoveAllTagsPurges]_vars

\* a tagged entity has been purged while another tagged one stays registered
C6_Witness ==
    /\ impl = "world"
    /\ entitiesToDelete = <<>>
    /\ \E p, r \in Pointers :
         /\ Purged(p) /\ Len(heap[p].tags) = 2
         /\ Registered(r) /\ r \in World_GetEntitiesByTag(Cur, str_e)

-----------------------------------------------------------------------------
(* C7 *)

\* C7: after cleanup() has purged entity e, e has no tag associations in either
\* direction: has_tag(e, t) is false for every tag t and tags_of(e) is empty,
\* also through an entity reference obtained before the cleanup.
C7_PurgedHasNoTags ==
    [][CallCleanup =>
         \A id \in Pending :
             LET p == World_GetEntity(Cur, id) IN
             /\ World_GetTags(Nxt, p) = <<>>
             /\ \A t \in QueryTags : ~World_HasTag(Nxt, p, t)]_vars

-----------------------------------------------------------------------------
(* C8 *)

C8_NoDuplicatePending ==
    \A i, j \in 1..Len(entitiesToDelete) :
        entitiesToDelete[i] = entitiesToDelete[j] => i = j

C8_OneEntryOneRemoval ==
    /\ \A id \in KnownIDs :
         SetWorld(World_DestroyEntity(Cur, id)) =>
             Len(entitiesToDelete') =
                 Len(entitiesToDelete) + (IF World_IsAlive(Cur, World_GetEntity(Cur, id)) THEN 1 ELSE 0)
    /\ CallCleanup =>
         Cardinality(DOMAIN Entities') = Cardinality(DOMAIN Entities) - Len(entitiesToDelete)

\* C8: an entity appears at most once in the pending-deletion list in every
\* reachable state; a destroy call adds one entry when the entity is alive and
\* none otherwise, and cleanup removes exactly one registry entry per pending
\* entry.
C8_PendingOnce == []C8_NoDuplicatePending /\ [][C8_OneEntryOneRemoval]_vars

\* every created entity is pending, each once, after live and dead ones were destroyed
C8_Witness ==
    /\ impl = "world"
    /\ Len(heap) = MaxEntities
    /\ Len(entitiesToDelete) = MaxEntities
    /\ \A p \in Pointers : Registered(p) /\ ~World_IsAlive(Cur, p)

-----------------------------------------------------------------------------
(* C9 *)

C9_IdsDistinct ==
    /\ idCounter = Len(heap)
    /\ \A p \in Pointers : CounterPart(heap[p].ID) = p - 1
    /\ \A p, q \in Pointers : heap[p].ID = heap[q].ID => p = q

C9_CounterSteps ==
    /\ idCounter' >= idCounter
    /\ CallCreateEntity => /\ idCounter' = idCounter + 1
                           /\ Len(heap') = Len(heap) + 1
                           /\ CounterPart(heap'[Len(heap')].ID) = idCounter
                           /\ \A p \in Pointers : heap'[Len(heap')].ID # heap[p].ID

\* C9: every create() returns an identifier different from every identifier an
\* earlier create() returned, purged entities included; the counter part of
\* the identifier is the number of earlier creates, the counter grows by
\* exactly one per create() and no operation decreases it.
C9_IdsNeverReused == []C9_IdsDistinct /\ [][C9_CounterSteps]_vars

\* an entity was created after an earlier one with the same prefix was purged
C9_Witness ==
    /\ impl = "world"
    /\ \E p, q \in Pointers :
         /\ p < q
         /\ Purged(p) /\ Registered(q)
         /\ SubSeq(heap[p].ID, 1, 1) = SubSeq(heap[q].ID, 1, 1)

-----------------------------------------------------------------------------
(* Observations of the last Update() call *)

\* the log entries of kind op that lg holds for event position pos and rule j
Entries(lg, op, pos, j) ==
    {i \in 1..Len(lg) : lg[i].op = op /\ lg[i].pos = pos /\ lg[i].rule = j}

EntriesN(lg, op, pos, j, n) == {i \in Entries(lg, op, pos, j) : lg[i].n = n}

\* the events emitted by the steps of lg, in order: by an emitting action, or
\* by a loop re-emission of the processed event q[pos]
RECURSIVE EmittedIn(_, _)
EmittedIn(lg, q) ==
    IF lg = <<>> THEN <<>>
    ELSE LET e == Head(lg)
             out == IF e.op = "loop" THEN <<q[e.pos]>>
                    ELSE IF e.op = "act" /\ Behaviors[e.rule].Actions[e.n].kind = "Emit"
                         THEN <<Behaviors[e.rule].Actions[e.n].arg>>
                         ELSE <<>>
         IN out \o EmittedIn(Tail(lg), q)

Phase(op) == CASE op = "match" -> 0 [] op = "cond" -> 1 [] op = "act" -> 2 [] op = "loop" -> 3

\* lexicographic order on (event position, rule, phase, index)
Before(a, b) ==
    \/ a.pos < b.pos
    \/ a.pos = b.pos /\ a.rule < b.rule
    \/ a.pos = b.pos /\ a.rule = b.rule /\ Phase(a.op) < Phase(b.op)
    \/ a.pos = b.pos /\ a.rule = b.rule /\ Phase(a.op) = Phase(b.op) /\ a.n < b.n

Count(seq, x) == Cardinality({i \in 1..Len(seq) : seq[i] = x})

-----------------------------------------------------------------------------
(* C2 *)

C2_UpdateStep ==
    CallUpdate =>
        /\ taken' = eventQueue
        /\ \A i \in 1..Len(log') : log'[i].pos \in 1..Len(eventQueue)
        /\ \A pos \in 1..Len(eventQueue), j \in 1..Len(Behaviors) :
             Cardinality(Entries(log', "match", pos, j)) = 1
        /\ Cardinality({i \in 1..Len(log') : log'[i].op = "match"})
              = Len(eventQueue) * Len(Behaviors)
        /\ eventQueue' = EmittedIn(log', eventQueue)

\* C2: an event emitted while update() runs, by an action or by the loop
\* re-emission, is matched against no rule in that call: update() matches
\* exactly the events that were queued when it was called, once per rule, and
\* the queue it leaves holds exactly the events emitted during the call, which
\* are the events the next update() takes.
C2_EmittedDuringUpdateWaits == [][C2_UpdateStep]_vars

\* the last update took a PING an action had emitted in the update before, and
\* left a PING and a re-emitted loop event for the next one
C2_Witness ==
    /\ taken = <<evPing, evLoop>>
    /\ \E i \in 1..Len(log) : log[i].op = "loop"
    /\ \E i \in 1..Len(log) : log[i].op = "act" /\ Behaviors[log[i].rule].Actions[log[i].n] = EmitPing
    /\ eventQueue = <<evPing, evLoop>>

-----------------------------------------------------------------------------
(* C3 *)

C3_LogOrdered ==
    /\ \A a, b \in 1..Len(log) : a < b => Before(log[a], log[b])
    /\ \A i \in 1..Len(log) : log[i].pos \in 1..Len(taken) /\ log[i].rule \in 1..Len(Behaviors)

C3_AllConsidered ==
    /\ \A pos \in 1..Len(taken), j \in 1..Len(Behaviors) :
         /\ Entries(log, "match", pos, j) # {}
         /\ Entries(log, "act", pos, j) # {} =>
              \A k \in 1..Len(Behaviors[j].Actions) : EntriesN(log, "act", pos, j, k) # {}

\* C3: within one update() the taken events are processed in queue order, each
\* completely before the next; for each event every rule is considered, in
\* registration order; a rule's conditions come before its actions, and the
\* actions of a rule that runs are executed all, in list order.
C3_ProcessingOrder == C3_LogOrdered /\ C3_AllConsidered

\* two events were processed; for one of them two rules ran, one with three actions
C3_Witness ==
    /\ Len(taken) = 2
    /\ \E pos \in 1..2 :
         /\ EntriesN(log, "act", pos, 1, 1) # {}
         /\ EntriesN(log, "act", pos, 3, 3) # {}
    /\ Entries(log, "match", 2, 5) # {}

-----------------------------------------------------------------------------
(* C4 *)

C4_Ran(pos, j) ==
    /\ Matches(Behaviors[j].Trigger, taken[pos])
    /\ \A k \in 1..Len(Behaviors[j].Conditions) :
         \E i \in EntriesN(log, "cond", pos, j, k) : log[i].ok

\* the logged answer of a condition that reads the event alone
C4_AnswerOf(c, ev, logged) ==
    CASE c.kind = "AlwaysTrue" -> TRUE
      [] c.kind = "PayloadIsOk" -> (ev.Payload = "ok")
      [] OTHER -> logged

\* C4: for every processed event and every rule, each action of the rule is
\* executed exactly once if the rule's trigger matches the event and every one
\* of its conditions returned true, and not at all otherwise; conditions are
\* evaluated only for a matching trigger; a rule without conditions runs its
\* actions whenever its trigger matches.
C4_ActionsIffMatchAndConditions ==
    \A pos \in 1..Len(taken), j \in 1..Len(Behaviors) :
        /\ \A k \in 1..Len(Behaviors[j].Actions) :
             Cardinality(EntriesN(log, "act", pos, j, k)) = IF C4_Ran(pos, j) THEN 1 ELSE 0
        /\ \A i \in Entries(log, "match", pos, j) :
             log[i].ok = Matches(Behaviors[j].Trigger, taken[pos])
        /\ ~Matches(Behaviors[j].Trigger, taken[pos]) => Entries(log, "cond", pos, j) = {}
        /\ \A i \in Entries(log, "cond", pos, j) :
             log[i].ok = C4_AnswerOf(Behaviors[j].Conditions[log[i].n], taken[pos], log[i].ok)
        /\ Len(Behaviors[j].Conditions) = 0 /\ Matches(Behaviors[j].Trigger, taken[pos]) =>
             \A k \in 1..Len(Behaviors[j].Actions) : EntriesN(log, "act", pos, j, k) # {}

\* for one event a rule without conditions ran, a rule was skipped by its
\* filter, a rule was stopped by its second condition and ran nothing, and a
\* rule with two passing conditions ran; for another event a rule was stopped
\* by its first condition
C4_Witness ==
    /\ Behaviors = RulesMany
    /\ \E pos \in 1..Len(taken) :
        /\ EntriesN(log, "act", pos, 1, 1) # {}
        /\ \E i \in Entries(log, "match", pos, 2) : ~log[i].ok
        /\ \E i \in EntriesN(log, "cond", pos, 3, 2) : ~log[i].ok
        /\ Entries(log, "act", pos, 3) = {}
        /\ EntriesN(log, "act", pos, 4, 1) # {}
    /\ \E pos \in 1..Len(taken) :
        /\ \E i \in EntriesN(log, "cond", pos, 4, 1) : ~log[i].ok
        /\ Entries(log, "act", pos, 4) = {}

-----------------------------------------------------------------------------
(* C10 *)

LoopEvents(q) == {i \in 1..Len(q) : q[i].Type = "loop"}

C10_Scenario ==
    /\ Len(Behaviors) = 1
    /\ Behaviors[1].Trigger.Type = "loop"
    /\ Cardinality(LoopEvents(eventQueue)) = 1

C10_LoopStep ==
    (CallUpdate /\ C10_Scenario) =>
        LET pos == CHOOSE i \in LoopEvents(eventQueue) : TRUE
            ev == eventQueue[pos]
            pass == /\ Matches(Behaviors[1].Trigger, ev)
                    /\ \A k \in 1..Len(Behaviors[1].Conditions) :
                         Evaluate(Behaviors[1].Conditions[k], Cur, ev)
            acts == {i \in 1..Len(log') : log'[i].op = "act"}
        IN IF pass
           THEN /\ \A k \in 1..Len(Behaviors[1].Actions) :
                     Cardinality({i \in acts : log'[i].n = k}) = 1
                /\ Cardinality(acts) = Len(Behaviors[1].Actions)
                /\ Cardinality(LoopEvents(eventQueue')) = 1
                /\ Count(eventQueue', ev) = 1
           ELSE /\ acts = {}
                /\ LoopEvents(eventQueue') = {}

C10_StaysAway ==
    (CallUpdate /\ Len(Behaviors) = 1 /\ Behaviors[1].Trigger.Type = "loop"
                /\ LoopEvents(eventQueue) = {}) =>
        /\ LoopEvents(eventQueue') = {}
        /\ \A i \in 1..Len(log') : log'[i].op # "act"

\* C10: with a single rule of trigger type "loop" and one "loop" event queued,
\* an update() in which the rule matches and all its conditions pass executes
\* each action of the rule exactly once and leaves exactly one copy of that
\* event queued; an update() in which a condition fails runs no action and
\* leaves no loop event queued; and an update() of a queue without a loop event
\* leaves none and runs no action, so that without an external emission the
\* event does not come back.
C10_LoopUntilConditionFails == [][C10_LoopStep /\ C10_StaysAway]_vars

\* the loop rule ran once and removed the tag its condition asks for; in the
\* next update the condition failed and the queue was left empty
C10_Witness ==
    /\ Behaviors = RulesLoopUntag
    /\ taken = <<evLoop>>
    /\ eventQueue = <<>>
    /\ \E i \in 1..Len(log) : log[i].op = "cond" /\ ~log[i].ok
    /\ \E p \in Pointers : Registered(p) /\ heap[p].ID = id0 /\ heap[p].tags = <<>>

-----------------------------------------------------------------------------
(* C11 *)

\* the steps of lg that put an event into the queue
Emissions(lg) ==
    {i \in 1..Len(lg) :
        \/ lg[i].op = "loop"
        \/ lg[i].op = "act" /\ Behaviors[lg[i].rule].Actions[lg[i].n].kind = "Emit"}

C11_EmitOnlyAppends ==
    CallEmit =>
        /\ \E ev \in ExtEvents : eventQueue' = Append(eventQueue, ev)
        /\ log' = log /\ taken' = taken
        /\ UNCHANGED worldVars

C11_ConsumedOnce ==
    CallUpdate =>
        /\ \A pos \in 1..Len(eventQueue) :
             /\ taken'[pos] = eventQueue[pos]
             /\ \A j \in 1..Len(Behaviors) : Cardinality(Entries(log', "match", pos, j)) = 1
        /\ Len(eventQueue') = Cardinality(Emissions(log'))

C11_StartPing ==
    (CallUpdate /\ Behaviors = RulesStartPing) =>
        /\ (Len(eventQueue) = 1 /\ eventQueue[1].Type = "START") =>
              (eventQueue' = <<evPing>> /\ Cardinality(Emissions(log')) = 1)
        /\ eventQueue = <<evPing>> =>
              /\ eventQueue' = <<>>
              /\ \A i \in 1..Len(log') : log'[i].op = "match" /\ ~log'[i].ok

\* C11: emit appends the event to the queue and evaluates no rule; the next
\* update() takes every queued event, matches it once against every rule and
\* keeps none of them: the queue it leaves holds one entry per emission made
\* during the call, whether or not a rule matched.  With the rule START -> emit
\* PING and no rule for PING, the update after emit(START) leaves exactly
\* [PING], and the update that takes [PING] runs no action and leaves the
\* queue empty.
C11_EventsAreTransient == [][C11_EmitOnlyAppends /\ C11_ConsumedOnce /\ C11_StartPing]_vars

\* the second update of the scenario has run: PING was taken, no rule matched
\* it, and nothing is queued
C11_Witness ==
    /\ Behaviors = RulesStartPing
    /\ taken = <<evPing>>
    /\ log = <<LogEntry("match", 1, 1, 0, FALSE)>>
    /\ eventQueue = <<>>

-----------------------------------------------------------------------------
(* C12 *)

C12_Returns == (pc = "update") ~> (pc = "idle")

C12_TakesTheQueue ==
    UpdateBegin =>
        /\ taken' = eventQueue
        /\ eventQueue = <<>> => (pc' = "idle" /\ log' = <<>> /\ eventQueue' = <<>>)

C12_OneQueuedEventPerIteration ==
    UpdateEvent =>
        /\ rangePos \in 1..Len(taken)
        /\ taken' = taken
        /\ \A i \in 1..Len(log') : i > Len(log) => log'[i].pos = rangePos
        /\ \A j \in 1..Len(Behaviors) :
             \E i \in Entries(log', "match", rangePos, j) :
                 i > Len(log) /\ log'[i].ok = Matches(Behaviors[j].Trigger, taken[rangePos])

C12_ReturnsAfterTheLast == UpdateReturn => rangePos = Len(taken) + 1

\* the bound on the queue length never stops an iteration that is due
C12_IterationPossible ==
    (pc = "update" /\ rangePos <= Len(taken)) =>
        Len(processEvent(Cur, taken[rangePos], rangePos).eventQueue) <= QueueCap

\* C12: every update() call returns, and it has then processed exactly the
\* events that were in the queue when it was called, one per iteration and
\* none for an empty queue, whatever the rules are: loop rules and actions
\* that emit events add to the queue of the next call and not to the one
\* being walked.
C12_UpdateReturns ==
    /\ C12_Returns
    /\ []C12_IterationPossible
    /\ [][C12_TakesTheQueue /\ C12_OneQueuedEventPerIteration /\ C12_ReturnsAfterTheLast]_vars

\* update() has returned from a queue of two events during which a loop rule
\* re-emitted and an action emitted, and those events wait for the next call
C12_Witness ==
    /\ pc = "idle"
    /\ Len(taken) = 2
    /\ rangePos = 3
    /\ \E i \in 1..Len(log) : log[i].op = "loop"
    /\ \E i \in 1..Len(log) : log[i].op = "act" /\ Behaviors[log[i].rule].Actions[log[i].n] = EmitPing
    /\ Len(eventQueue) >= 2

-----------------------------------------------------------------------------
(* C13 *)

\* C13: Trigger.Matches(event) is true exactly when the event's type equals
\* the trigger's type, compared case-sensitively, and the trigger's filter is
\* empty or holds participant A or participant B of the event.
C13_MatchesIff ==
    call.fn = "Matches" =>
        LET t == call.args[1]
            ev == call.args[2]
            listed == {t.Entities[i] : i \in 1..Len(t.Entities)}
        IN call.ret = (/\ ev.Type = t.Type
                       /\ (t.Entities = <<>> \/ ev.A \in listed \/ ev.B \in listed))

\* a match through participant B alone, with a filter of two identifiers
C13_Witness ==
    /\ call.fn = "Matches"
    /\ call.args[1] = Trigger("START", <<str_ghost, id0>>)
    /\ call.args[2] = Event("START", NoStr, id0, "ok")
    /\ call.ret = TRUE

-----------------------------------------------------------------------------
(* C14 *)

\* the log entry that follows a rule stopped at log position i: the trigger
\* match of the next rule for the same event, or of the first rule for the
\* next event, or nothing after the last rule of the last event
C14_NextRuleFollows(i) ==
    LET e == log[i] IN
    IF e.rule < Len(Behaviors)
    THEN i < Len(log) /\ log[i + 1].op = "match"
                      /\ log[i + 1].pos = e.pos /\ log[i + 1].rule = e.rule + 1
    ELSE IF e.pos < Len(taken)
         THEN i < Len(log) /\ log[i + 1].op = "match"
                           /\ log[i + 1].pos = e.pos + 1 /\ log[i + 1].rule = 1
         ELSE i = Len(log)

\* C14: the conditions of a rule whose trigger matched are evaluated in list
\* order, each only after all earlier ones returned true; at the first
\* condition that returns false no later condition of the rule is evaluated,
\* none of its actions runs, the rule re-emits nothing, and the next step is
\* the trigger match of the next rule for the same event.
C14_ShortCircuit ==
    \A i \in 1..Len(log) :
        log[i].op = "cond" =>
            LET pos == log[i].pos
                j == log[i].rule
            IN /\ \E m \in Entries(log, "match", pos, j) : log[m].ok /\ m < i
               /\ \A k \in 1..(log[i].n - 1) :
                    \E c \in EntriesN(log, "cond", pos, j, k) : log[c].ok /\ c < i
               /\ ~log[i].ok =>
                    /\ \A c \in Entries(log, "cond", pos, j) : log[c].n <= log[i].n
                    /\ Entries(log, "act", pos, j) = {}
                    /\ Entries(log, "loop", pos, j) = {}
                    /\ C14_NextRuleFollows(i)

\* a loop rule passed its first condition and failed its second: the third was
\* not evaluated, the rule ran and re-emitted nothing, and the loop rule after
\* it ran and re-emitted the event
C14_Witness ==
    /\ Behaviors = RulesLoopGuarded
    /\ \E pos \in 1..Len(taken) :
        /\ \E c \in EntriesN(log, "cond", pos, 1, 1) : log[c].ok
        /\ \E c \in EntriesN(log, "cond", pos, 1, 2) : ~log[c].ok
        /\ EntriesN(log, "cond", pos, 1, 3) = {}
        /\ Entries(log, "loop", pos, 1) = {}
        /\ Entries(log, "act", pos, 2) # {}
        /\ Entries(log, "loop", pos, 2) # {}
    /\ \E pos \in 1..Len(taken) : EntriesN(log, "cond", pos, 1, 3) # {}

-----------------------------------------------------------------------------
(* C15 *)

\* the action run at log entry e of lg
ActionOf(lg, e) == Behaviors[lg[e].rule].Actions[lg[e].n]

\* the actions run before step i of lg on the entity named by participant A of ev
ActsBeforeOn(lg, q, i, ev) ==
    {a \in 1..(i - 1) : lg[a].op = "act" /\ q[lg[a].pos].A = ev.A}

Last(S) == CHOOSE x \in S : \A y \in S : y <= x

\* what a condition that reads the registry must answer at step i of the pass
\* over queue q that started in the current state: the last write made before
\* it in this pass, or the value the pass started with when there was none
C15_LiveAnswer(lg, q, i) ==
    LET c == Behaviors[lg[i].rule].Conditions[lg[i].n]
        ev == q[lg[i].pos]
        p == World_GetEntity(Cur, ev.A)
        before == ActsBeforeOn(lg, q, i, ev)
        tagWrites == {a \in before :
                        /\ ActionOf(lg, a).kind \in {"AddTagA", "RemoveTagA"}
                        /\ filterTag(ActionOf(lg, a).arg) = filterTag(c.arg)}
        destroys == {a \in before : ActionOf(lg, a).kind = "DestroyA"}
    IN CASE c.kind = "HasTagA" ->
              IF p = nil THEN FALSE
              ELSE IF tagWrites = {} THEN World_HasTag(Cur, p, c.arg)
              ELSE ActionOf(lg, Last(tagWrites)).kind = "AddTagA"
         [] c.kind = "IsAliveA" -> World_IsAlive(Cur, p) /\ destroys = {}
         [] OTHER -> lg[i].ok

C15_ConditionsReadLive ==
    CallUpdate =>
        \A i \in 1..Len(log') :
            log'[i].op = "cond" => log'[i].ok = C15_LiveAnswer(log', eventQueue, i)

\* C15: a condition evaluated during update() observes every tag edit and
\* destroy mark that an action of an earlier rule, or of an earlier event, made
\* in the same pass: its answer is the one the last such write before it
\* produces, and the state the pass started with only when there was none.
C15_EarlierEffectsVisible == [][C15_ConditionsReadLive]_vars

\* for one event, rule r1 added the tag that rule r3's condition then found,
\* r3 marked the entity destroyed, and rule r6's condition found it not alive
C15_Witness ==
    /\ Behaviors = RulesMany
    /\ \E pos \in 1..Len(taken) :
        /\ Entries(log, "act", pos, 1) # {}
        /\ \E c \in EntriesN(log, "cond", pos, 3, 2) : log[c].ok
        /\ EntriesN(log, "act", pos, 3, 3) # {}
        /\ \E c \in EntriesN(log, "cond", pos, 6, 1) : ~log[c].ok
    /\ \E p \in Pointers : heap[p].ID = id0 /\ ~heap[p].isAlive

-----------------------------------------------------------------------------
(* C16 *)

IsUpper(c) == c \in 65..90
IsTagChar(c) == c \in 65..90 \/ c \in 97..122 \/ c \in 48..57 \/ c = 95
ToLower(c) == IF IsUpper(c) THEN c + 32 ELSE c

\* the letters, digits and underscores of r in their order, uppercase lowered
NormalForm(r) ==
    LET kept == SelectSeq(r, IsTagChar)
    IN [i \in 1..Len(kept) |-> ToLower(kept[i])]

\* C16: for every input string, tag normalization returns exactly the
\* subsequence of its characters that are ASCII letters, ASCII digits or
\* underscore, in the original order, each uppercase letter replaced by its
\* lowercase form, and drops every other character.
C16_NormalizationRule ==
    call.fn = "filterTag" => call.ret = NormalForm(call.args[1])

\* "Z!_" became "z_": an uppercase letter lowered, a character dropped, an
\* underscore kept
C16_Witness ==
    /\ call.fn = "filterTag"
    /\ call.args[1] = <<90, 33, 95>>
    /\ call.ret = <<122, 95>>

-----------------------------------------------------------------------------
(* C17 *)

\* pairs of raw strings with the same non-empty normal form
SameTag(r1, r2) == filterTag(r1) = filterTag(r2) /\ filterTag(r1) # NoStr

C17_World ==
    \A p \in Pointers : Registered(p) =>
        \A r1, r2 \in QueryTags : SameTag(r1, r2) =>
            LET s1 == World_AddTag(Cur, p, r1)
                s2 == World_RemoveTag(s1, p, r2)
            IN /\ World_HasTag(s1, p, r2)
               /\ p \in World_GetEntitiesByTag(s1, r2)
               /\ ~World_HasTag(s2, p, r1)
               /\ p \notin World_GetEntitiesByTag(s2, r1)

C17_TagManager ==
    \A e \in TMEntities :
        \A r1, r2 \in QueryTags : SameTag(r1, r2) =>
            LET t1 == TagManager_AddTag(CurTM, e, r1)
                t2 == TagManager_RemoveTag(t1, e, r2)
            IN /\ TagManager_HasTag(t1, e, r2)
               /\ e \in TagManager_GetEntitiesByTag(t1, r2)
               /\ ~TagManager_HasTag(t2, e, r1)
               /\ e \notin TagManager_GetEntitiesByTag(t2, r1)

\* C17: in every reachable state, for every entity the registry holds (every
\* entity value for the TagManager) and all raw strings r1, r2 with the same
\* non-empty normal form: after add_tag(e, r1), has_tag(e, r2) is true and
\* entities_with_tag(r2) includes e; and after a following remove_tag(e, r2),
\* has_tag(e, r1) is false and entities_with_tag(r1) does not include e.
C17_TagRoundTrip == C17_World /\ C17_TagManager

\* a registered entity carries the tag "a", which only add_tag(e, "A") gives,
\* and is found under the spelling "a"; another registered entity created with
\* prefix "E" has lost the tag "e" to a remove_tag
C17_Witness ==
    /\ \E p \in Pointers :
         /\ Registered(p)
         /\ World_HasTag(Cur, p, str_a)
         /\ p \in World_GetEntitiesByTag(Cur, str_a)
    /\ \E q \in Pointers :
         /\ Registered(q)
         /\ heap[q].ID[1] = 69
         /\ ~World_HasTag(Cur, q, str_eBang)
         /\ q \notin World_GetEntitiesByTag(Cur, str_E)

-----------------------------------------------------------------------------
(* C18 *)

TagSet(s, p) == {World_GetTags(s, p)[i] : i \in 1..Len(World_GetTags(s, p))}

\* the ids under which the index lists struct p for the normal form of r
IndexKeysOf(s, p, r) ==
    LET tag == filterTag(r) IN
    IF tag \in DOMAIN s.tagIndex
    THEN {id \in DOMAIN s.tagIndex[tag] : s.tagIndex[tag][id] = p}
    ELSE {}

C18_World ==
    \A p \in Pointers, r \in QueryTags :
        World_HasTag(Cur, p, r) =>
            /\ World_AddTag(Cur, p, r) = Cur
            /\ Count(World_GetTags(Cur, p), filterTag(r)) = 1
            /\ Registered(p) => Cardinality(IndexKeysOf(Cur, p, r)) = 1

C18_TagManager ==
    \A e \in TMEntities, r \in QueryTags :
        TagManager_HasTag(CurTM, e, r) => TagManager_AddTag(CurTM, e, r) = CurTM

\* C18: add_tag is idempotent.  In every reachable state, add_tag(e, r) for an
\* entity that already holds the normal form of r changes nothing at all, the
\* tag occurs exactly once among the tags of e, and e is listed exactly once
\* under the tag, whatever adds, in whatever spelling, led to the state.
C18_AddTagIdempotent == C18_World /\ C18_TagManager

\* a registered entity holds the two tags "e" and "a", each once
C18_Witness ==
    \E p \in Pointers :
        /\ Registered(p)
        /\ Len(World_GetTags(Cur, p)) = 2
        /\ TagSet(Cur, p) = {str_e, str_a}
        /\ World_AddTag(Cur, p, str_eBang) = Cur

-----------------------------------------------------------------------------
(* C19 *)

\* raw strings whose normal form is empty: "", "!", "-"
EmptyRaw == {r \in QueryTags \cup {NoStr} : filterTag(r) = NoStr}

C19_World ==
    \A r \in EmptyRaw :
        /\ World_GetEntitiesByTag(Cur, r) = {}
        /\ \A p \in Pointers :
             /\ World_AddTag(Cur, p, r) = Cur
             /\ World_RemoveTag(Cur, p, r) = Cur
             /\ ~World_HasTag(Cur, p, r)

C19_TagManager ==
    \A r \in EmptyRaw :
        /\ TagManager_GetEntitiesByTag(CurTM, r) = {}
        /\ \A e \in TMEntities :
             /\ TagManager_AddTag(CurTM, e, r) = CurTM
             /\ TagManager_RemoveTag(CurTM, e, r) = CurTM
             /\ ~TagManager_HasTag(CurTM, e, r)

\* C19: for every raw tag whose normal form is empty, in every reachable state
\* and for every entity, add_tag and remove_tag change nothing, has_tag is
\* false and entities_with_tag is empty.
C19_EmptyTagIgnored == C19_World /\ C19_TagManager

\* the TagManager holds tags after calls that included raw "!" strings, and an
\* entity that was given nothing else has no entry at all
C19_Witness ==
    /\ impl = "tagmanager"
    /\ \E e \in TMEntities : TagManager_GetTags(CurTM, e) = {str_e, str_a}
    /\ \E e \in TMEntities : e \notin DOMAIN entityTags
    /\ EmptyRaw = {NoStr, str_Bang, str_Dash}

-----------------------------------------------------------------------------
(* C20 *)

C20_World ==
    \A p \in Pointers, r \in QueryTags :
        LET tag == filterTag(r)
            s2 == World_RemoveTag(Cur, p, r)
        IN /\ TagSet(s2, p) = TagSet(Cur, p) \ {tag}
           /\ Len(World_GetTags(s2, p)) = Cardinality(TagSet(s2, p))
           /\ \A q \in Pointers \ {p} : s2.heap[q] = heap[q]
           /\ \A t \in QueryTags :
                World_GetEntitiesByTag(s2, t) =
                    IF filterTag(t) = tag THEN World_GetEntitiesByTag(Cur, t) \ {p}
                    ELSE World_GetEntitiesByTag(Cur, t)
           /\ s2.Entities = Entities /\ s2.entitiesToDelete = entitiesToDelete
           /\ s2.heap[p].ID = heap[p].ID /\ s2.heap[p].isAlive = heap[p].isAlive
           /\ ~World_HasTag(Cur, p, r) => s2 = Cur

C20_TagManager ==
    \A e \in TMEntities, r \in QueryTags :
        LET tag == filterTag(r)
            t2 == TagManager_RemoveTag(CurTM, e, r)
        IN /\ TagManager_GetTags(t2, e) = TagManager_GetTags(CurTM, e) \ {tag}
           /\ \A f \in TMEntities \ {e} :
                TagManager_GetTags(t2, f) = TagManager_GetTags(CurTM, f)
           /\ \A t \in QueryTags :
                TagManager_GetEntitiesByTag(t2, t) =
                    IF filterTag(t) = tag THEN TagManager_GetEntitiesByTag(CurTM, t) \ {e}
                    ELSE TagManager_GetEntitiesByTag(CurTM, t)
           /\ ~TagManager_HasTag(CurTM, e, r) => t2 = CurTM

\* C20: in every reachable state remove_tag(e, r) takes only the pair (e,
\* normal form of r) out of both directions of the index: the other tags of e,
\* the tags of every other entity and the entities under every other tag are
\* as before, and when e does not hold the tag, also when it holds none,
\* nothing changes.
C20_RemoveTagFrame == C20_World /\ C20_TagManager

\* an entity created with prefix "E" has lost "e", the first of its two tags,
\* and kept "a", while another entity still holds "e"
C20_Witness ==
    \E p, q \in Pointers :
        /\ p # q /\ Registered(p) /\ Registered(q)
        /\ heap[p].ID[1] = 69
        /\ World_GetTags(Cur, p) = <<str_a>>
        /\ World_HasTag(Cur, q, str_e)
        /\ q \in World_GetEntitiesByTag(Cur, str_e)
        /\ p \notin World_GetEntitiesByTag(Cur, str_e)

-----------------------------------------------------------------------------
(* C21 *)

\* id names no live entity: never created, destroyed and pending, or purged
DeadOrUnknown(id) ==
    LET p == World_GetEntity(Cur, id) IN p = nil \/ ~heap[p].isAlive

\* C21: in every reachable state, destroy on an identifier that was never
\* created, that is destroyed and not yet cleaned, or that is already purged
\* changes nothing (registry, liveness flags, pending list, tag index); and
\* is_alive is false for nil and for the struct of a purged entity.
C21_DestroyUnknownIsNoOp ==
    /\ \A id \in KnownIDs : DeadOrUnknown(id) => World_DestroyEntity(Cur, id) = Cur
    /\ ~World_IsAlive(Cur, nil)
    /\ ~World_IsAlive(Cur, World_GetEntity(Cur, str_ghost))
    /\ \A p \in Pointers : Purged(p) => ~World_IsAlive(Cur, p)

\* one entity is destroyed and pending, another has been purged, and the id
\* "g_9" was never created: the three kinds of identifier are all present
C21_Witness ==
    /\ \E p \in Pointers : Registered(p) /\ ~heap[p].isAlive /\ heap[p].ID \in Pending
    /\ \E q \in Pointers : Purged(q)
    /\ World_GetEntity(Cur, str_ghost) = nil

-----------------------------------------------------------------------------
(* C22 *)

\* the prefix an id was formatted from: what precedes its last underscore
PrefixPart(id) ==
    LET i == CHOOSE k \in 1..Len(id) : id[k] = 95 /\ \A j \in (k+1)..Len(id) : id[j] # 95
    IN SubSeq(id, 1, i - 1)

\* the struct a CreateEntity step has just allocated
Created == Len(heap')

C22_CreateStep ==
    CallCreateEntity =>
        LET tag == filterTag(PrefixPart(heap'[Created].ID)) IN
        /\ Len(heap') = Len(heap) + 1
        /\ World_GetEntity(Nxt, heap'[Created].ID) = Created
        /\ World_IsAlive(Nxt, Created)
        /\ heap'[Created].Components = EmptyMap
        /\ World_GetTags(Nxt, Created) = IF tag = NoStr THEN <<>> ELSE <<tag>>
        /\ \A t \in QueryTags :
             Created \in World_GetEntitiesByTag(Nxt, t) <=>
                 (tag # NoStr /\ filterTag(t) = tag)

C22_OnlyTagCallsEditTags ==
    (CallDestroyEntity \/ CallCleanup \/ CallCreateEntity) =>
        \A p \in Pointers :
            /\ heap'[p].tags = heap[p].tags
            /\ heap'[p].Components = heap[p].Components

-----------------------------------------------------------------------------
(* C23 *)

\* the unpurged entities that were created with a given prefix
CreatedWith(prefix) ==
    {p \in Pointers : Registered(p) /\ PrefixPart(heap[p].ID) = prefix}

C23_CreatedIsListed ==
    CallCreateEntity =>
        LET prefix == PrefixPart(heap'[Created].ID) IN
        filterTag(prefix) # NoStr =>
            /\ World_HasTag(Nxt, Created, prefix)
            /\ Created \in World_GetEntitiesByTag(Nxt, prefix)

C23_CountIsCreated ==
    \A prefix \in Prefixes :
        filterTag(prefix) # NoStr =>
            Cardinality(World_GetEntitiesByTag(Cur, prefix)) = Cardinality(CreatedWith(prefix))

\* C23 as stated: after CreateEntity(prefix), for a prefix with a non-empty
\* normal form, HasTag(e, prefix) is true and GetEntitiesByTag(prefix) contains
\* e, and the number of entities returned for a prefix equals the number of
\* unpurged entities created with that prefix.
C23_CountEqualsCreated == []C23_CountIsCreated /\ [][C23_CreatedIsListed]_vars

C23_CreateAddsOne ==
    CallCreateEntity =>
        LET prefix == PrefixPart(heap'[Created].ID) IN
        \A t \in QueryTags :
                IF filterTag(t) # NoStr /\ filterTag(t) = filterTag(prefix)
                THEN /\ Created \notin World_GetEntitiesByTag(Cur, t)
                     /\ World_GetEntitiesByTag(Nxt, t) = World_GetEntitiesByTag(Cur, t) \cup {Created}
                ELSE World_GetEntitiesByTag(Nxt, t) = World_GetEntitiesByTag(Cur, t)

\* C23 amended: after CreateEntity(prefix), for a prefix with a non-empty
\* normal form, HasTag(e, prefix) is true and GetEntitiesByTag(prefix) contains
\* e; the creation adds exactly e to the entities returned for that tag, one
\* more than before, and changes the result for no other tag.
C23_PrefixAutoTag == [][C23_CreatedIsListed /\ C23_CreateAddsOne]_vars

\* two entities created with prefix "E" are both returned for "E"
C23_Witness ==
    /\ Cardinality(CreatedWith(str_E)) = 2
    /\ World_GetEntitiesByTag(Cur, str_E) = CreatedWith(str_E)
    /\ \A p \in CreatedWith(str_E) : World_HasTag(Cur, p, str_E)

-----------------------------------------------------------------------------
(* Observations of the component managers *)

\* the value Get(e) points to, for an entity the manager has
ValueOf(c, cm, e) == c.cells[ComponentManager_Get(c, cm, e)]

\* what a manager holds: entity -> value
Contents(c, cm) == [e \in DOMAIN c.managers[cm] |-> ValueOf(c, cm, e)]

\* the host's pointer is the one the entry it came from still holds
HeldIsCurrent ==
    /\ held # NoRef
    /\ ComponentManager_Get(CurC, held.cm, held.e) = held.ptr

\* the host's pointer came from an entry that has been replaced or removed since
HeldIsStale ==
    /\ held # NoRef
    /\ ComponentManager_Get(CurC, held.cm, held.e) # held.ptr

-----------------------------------------------------------------------------
(* C24 *)

C24_AddOf(cm, e, v) ==
    LET n == AddResult(cm, e, v).c IN
    /\ ComponentManager_Has(n, cm, e)
    /\ ValueOf(n, cm, e) = v
    /\ ComponentManager_Count(n, cm) =
           IF ComponentManager_Has(CurC, cm, e)
           THEN ComponentManager_Count(CurC, cm)
           ELSE ComponentManager_Count(CurC, cm) + 1
    /\ DOMAIN n.managers[cm] = DOMAIN managers[cm] \cup {e}

\* C24: Add(e, v2) on an entity the store already has leaves Get(e) equal to
\* v2 and Count() as it was after the first Add: the last write wins and no
\* second entry appears (an Add of an absent entity adds exactly one entry).
C24_AddOverwrites ==
    CanAdd => \A cm \in Managers, e \in CompEntities, v \in CompValues : C24_AddOf(cm, e, v)

\* the host took a pointer to an entry holding 10, and the entry has since
\* been overwritten with 20: one entry, holding 20
C24_Witness ==
    /\ HeldIsStale
    /\ cells[held.ptr] = 10
    /\ ComponentManager_Has(CurC, held.cm, held.e)
    /\ ValueOf(CurC, held.cm, held.e) = 20
    /\ ComponentManager_Count(CurC, held.cm) = 1

-----------------------------------------------------------------------------
(* C25 *)

\* manager `other` holds in n what it holds now
KeptIn(n, other) ==
    /\ n.managers[other] = managers[other]
    /\ Contents(n, other) = Contents(CurC, other)

C25_OtherStoresKept ==
    \A cm \in Managers : \A other \in Managers \ {cm} :
        /\ CanAdd => \A e \in CompEntities, v \in CompValues : KeptIn(AddResult(cm, e, v).c, other)
        /\ \A e \in CompEntities : KeptIn(RemoveResult(cm, e).c, other)
        /\ \A fn \in Callbacks : \A order \in RangeOrders(managers[cm]) :
               KeptIn(EachResult(cm, order, fn).c, other)
        /\ held.cm = cm => \A v \in WriteValues : KeptIn(WriteResult(v).c, other)

C25_RegistryKeepsStores ==
    RegistryStep => /\ managers' = managers
                    /\ cells' = cells
                    /\ held' = held

C25_StoresKeepRegistry == ~RegistryStep => UNCHANGED worldVars

\* C25: Add, Remove and writes in one store never change another store, and
\* CreateEntity, DestroyEntity and Cleanup never add, remove or change an entry
\* of any store (nor does a store call change the registry), so the components
\* of a destroyed and purged entity stay retrievable until Remove is called.
C25_StoresIndependent ==
    /\ []C25_OtherStoresKept
    /\ [][C25_RegistryKeepsStores /\ C25_StoresKeepRegistry]_vars

\* the entity the World created is destroyed and purged, both stores still
\* hold its components, and the other entity is in one store only
C25_Witness ==
    /\ Len(heap) = 1
    /\ Purged(1)
    /\ \A cm \in Managers : ComponentManager_Has(CurC, cm, CounterPart(heap[1].ID))
    /\ ComponentManager_Has(CurC, "positions", 1)
    /\ ~ComponentManager_Has(CurC, "healths", 1)

-----------------------------------------------------------------------------
(* C26 *)

C26_RemoveOf(cm, e) ==
    LET n == RemoveResult(cm, e).c IN
    /\ ~ComponentManager_Has(n, cm, e)
    /\ ComponentManager_Get(n, cm, e) = nil
    /\ ComponentManager_Count(n, cm) =
           IF ComponentManager_Has(CurC, cm, e)
           THEN ComponentManager_Count(CurC, cm) - 1
           ELSE ComponentManager_Count(CurC, cm)
    /\ \A other \in CompEntities \ {e} :
           /\ ComponentManager_Has(n, cm, other) = ComponentManager_Has(CurC, cm, other)
           /\ ComponentManager_Get(n, cm, other) = ComponentManager_Get(CurC, cm, other)
           /\ ComponentManager_Has(CurC, cm, other) =>
                  ValueOf(n, cm, other) = ValueOf(CurC, cm, other)
    /\ ~ComponentManager_Has(CurC, cm, e) => n = CurC

\* C26: Remove(e) of a present entity makes Has(e) false and Get(e) nil, takes
\* exactly one off Count() and leaves every other entry as it was; Remove(e)
\* of an absent entity leaves the store unchanged.
C26_RemoveExact == \A cm \in Managers, e \in CompEntities : C26_RemoveOf(cm, e)

\* the host took a pointer to an entry that has since been removed, and the
\* other entity's entry is still there
C26_Witness ==
    /\ HeldIsStale
    /\ ~ComponentManager_Has(CurC, held.cm, held.e)
    /\ ComponentManager_Count(CurC, held.cm) = 1

-----------------------------------------------------------------------------
(* C27 *)

\* the calls of fn the last Each made
Visits == call.ret

C27_EachOf(cm, order, fn) ==
    LET visits == EachResult(cm, order, fn).visits IN
    /\ Len(visits) = ComponentManager_Count(CurC, cm)
    /\ \A e \in DOMAIN managers[cm] :
           Cardinality({i \in 1..Len(visits) : visits[i].e = e}) = 1
    /\ \A i \in 1..Len(visits) :
           /\ ComponentManager_Has(CurC, cm, visits[i].e)
           /\ visits[i].component = ComponentManager_Get(CurC, cm, visits[i].e)

\* C27: Each calls fn exactly once for every entity in the store, Count()
\* times in all and never on an empty store, whatever order the range takes,
\* each time with the pointer the store holds for that entity.
C27_EachVisitsAllOnce ==
    \A cm \in Managers, fn \in Callbacks : \A order \in RangeOrders(managers[cm]) :
        C27_EachOf(cm, order, fn)

\* an Each over two entries that took the higher entity first
C27_Witness ==
    /\ call.fn = "Each"
    /\ Len(Visits) = 2
    /\ Visits[1].e > Visits[2].e

-----------------------------------------------------------------------------
(* C28 *)

\* every entry but those of `except` is present with the same value in n
SameBut(n, except) ==
    \A cm \in Managers : \A e \in DOMAIN managers[cm] :
        <<cm, e>> \notin except =>
            /\ ComponentManager_Has(n, cm, e)
            /\ ValueOf(n, cm, e) = ValueOf(CurC, cm, e)

C28_WriteLands ==
    HeldIsCurrent =>
        \A v \in WriteValues :
            /\ ValueOf(WriteResult(v).c, held.cm, held.e) = v
            /\ SameBut(WriteResult(v).c, {<<held.cm, held.e>>})

C28_CallbackWriteLands ==
    \A cm \in Managers, fn \in Callbacks : \A order \in RangeOrders(managers[cm]) :
        LET n == EachResult(cm, order, fn).c IN
        IF fn.kind = "write"
        THEN /\ \A e \in DOMAIN managers[cm] : ValueOf(n, cm, e) = fn.v
             /\ SameBut(n, {cm} \X CompEntities)
        ELSE SameBut(n, {})

C28_ValueStays ==
    /\ CanAdd => \A cm \in Managers, e \in CompEntities, v \in CompValues :
                     SameBut(AddResult(cm, e, v).c, {<<cm, e>>})
    /\ \A cm \in Managers, e \in CompEntities :
           /\ SameBut(RemoveResult(cm, e).c, {<<cm, e>>})
           /\ SameBut(GetResult(cm, e).c, {})

C28_OverwriteCutsOff ==
    /\ CanAdd =>
           \A cm \in Managers, e \in CompEntities, v \in CompValues :
               LET r == AddResult(cm, e, v) IN
               /\ ValueOf(r.c, cm, e) = v
               /\ held.cm = cm /\ held.e = e =>
                      ComponentManager_Get(r.c, cm, e) # r.ref.ptr
    /\ HeldIsStale => \A v \in WriteValues : SameBut(WriteResult(v).c, {})

\* C28: a write through the pointer Get(e) returned, or through the pointer
\* an Each callback is given, is what later Get(e) calls return until Add(e, v)
\* or Remove(e); after Add(e, v2) overwrites the entry Get(e) yields v2, and a
\* write through a pointer taken before the overwrite does not change it.
C28_PointerSemantics ==
    /\ [](C28_WriteLands /\ C28_CallbackWriteLands /\ C28_ValueStays /\ C28_OverwriteCutsOff)
    /\ [][C25_RegistryKeepsStores]_vars

\* the host wrote 999 through a pointer taken before the entry was
\* overwritten, and Get of the entry still yields the value Add gave it
C28_Witness ==
    /\ HeldIsStale
    /\ cells[held.ptr] = 999
    /\ ComponentManager_Has(CurC, held.cm, held.e)
    /\ ValueOf(CurC, held.cm, held.e) \in CompValues

-----------------------------------------------------------------------------
(* C29 *)

\* C29: Cleanup() called while entitiesToDelete is empty changes nothing (the
\* registry, the tag index and the tag lists, the pending list), and a second
\* Cleanup() right after a first leaves the state the first one left.
C29_CleanupIdempotent ==
    /\ entitiesToDelete = <<>> => World_Cleanup(Cur) = Cur
    /\ World_Cleanup(World_Cleanup(Cur)) = World_Cleanup(Cur)

\* nothing is pending after an earlier Cleanup purged one entity, and an
\* entity that carries a tag is registered
C29_Witness ==
    /\ entitiesToDelete = <<>>
    /\ \E p \in Pointers : Purged(p)
    /\ \E q \in Pointers :
           /\ Registered(q)
           /\ World_GetTags(Cur, q) # <<>>
           /\ q \in World_GetEntitiesByTag(Cur, World_GetTags(Cur, q)[1])

-----------------------------------------------------------------------------
(* C30 *)

\* the entities the queries return: by GetEntity for an id, by
\* GetEntitiesByTag for a tag
Returned ==
    ({World_GetEntity(Cur, id) : id \in KnownIDs} \ {nil})
        \cup UNION {World_GetEntitiesByTag(Cur, t) : t \in QueryTags}

\* C30 as stated: every entity GetEntitiesByTag(t) or GetEntity(id) returns
\* satisfies IsAlive at the time of the query.
C30_NoDeadReturned == \A q \in Returned : World_IsAlive(Cur, q)

\* C30 amended: an entity a query returns and the registry holds satisfies
\* IsAlive exactly when its id is not awaiting Cleanup, so a destroyed entity
\* is returned, dead, until Cleanup purges it; an entity GetEntitiesByTag
\* returns that the registry no longer holds is dead.
C30_DeadOnlyUntilCleanup ==
    \A q \in Returned :
        IF Registered(q)
        THEN World_IsAlive(Cur, q) <=> heap[q].ID \notin Pending
        ELSE ~World_IsAlive(Cur, q)

\* a destroyed entity awaiting Cleanup is returned by both queries, next to
\* an alive one
C30_Witness ==
    \E q, r \in Pointers :
        /\ heap[q].ID \in Pending
        /\ ~World_IsAlive(Cur, q)
        /\ World_GetEntity(Cur, heap[q].ID) = q
        /\ \E t \in QueryTags : q \in World_GetEntitiesByTag(Cur, t)
        /\ World_IsAlive(Cur, r)
        /\ r \in Returned

-----------------------------------------------------------------------------
(* C38 *)

C38_StaysDead ==
    \A p \in Pointers :
        /\ ~World_IsAlive(Cur, p) => ~World_IsAlive(Nxt, p)
        /\ Purged(p) => World_GetEntity(Nxt, heap[p].ID) = nil

\* C38: once IsAlive(e) is false for a created entity it is false after every
\* later CreateEntity, DestroyEntity, Cleanup and tag call: no step sets
\* isAlive back to true, and no step registers a purged id again.
C38_DeathIsPermanent == [][C38_StaysDead]_vars

\* an entity was destroyed and purged, tagged afterwards through the pointer
\* the host kept, and another entity was created after it; it is still dead
\* and its id still unregistered
C38_Witness ==
    /\ Len(heap) = 2
    /\ Purged(1)
    /\ ~World_IsAlive(Cur, 1)
    /\ World_GetTags(Cur, 1) = <<str_a>>
    /\ World_IsAlive(Cur, 2)
    /\ PrefixPart(heap[2].ID) = PrefixPart(heap[1].ID)

-----------------------------------------------------------------------------
(* C39 *)

\* the ids of the registered entities that are not alive
RegisteredDead == {heap[p].ID : p \in {q \in Pointers : Registered(q) /\ ~heap[q].isAlive}}

\* C39: the pending-deletion list holds exactly the registered entities whose
\* isAlive is false: every pending id is registered and not alive, and every
\* registered entity that is not alive is pending.
C39_PendingIsRegisteredDead == Pending = RegisteredDead

\* one entity is pending and not alive while another is registered and alive,
\* after an earlier Cleanup emptied the list
C39_Witness ==
    /\ idCounter = 2
    /\ \E p, q \in Pointers :
           /\ Pending = {heap[p].ID}
           /\ Registered(p) /\ ~World_IsAlive(Cur, p)
           /\ Registered(q) /\ World_IsAlive(Cur, q)

-----------------------------------------------------------------------------
(* C35 *)

\* the entities the next Cleanup purges
PendingPtrs == {p \in Pointers : Registered(p) /\ heap[p].ID \in Pending}

C35_World ==
    LET n == World_Cleanup(Cur) IN
    /\ \A p \in Pointers \ PendingPtrs :
           /\ World_GetEntity(n, heap[p].ID) = World_GetEntity(Cur, heap[p].ID)
           /\ n.heap[p] = heap[p]
           /\ World_IsAlive(n, p) = World_IsAlive(Cur, p)
           /\ World_GetTags(n, p) = World_GetTags(Cur, p)
    /\ \A t \in QueryTags :
           World_GetEntitiesByTag(n, t) = World_GetEntitiesByTag(Cur, t) \ PendingPtrs

C35_TagManager ==
    \A e \in TMEntities :
        LET n == TagManager_RemoveAllTags(CurTM, e) IN
        /\ \A other \in TMEntities \ {e} :
               TagManager_GetTags(n, other) = TagManager_GetTags(CurTM, other)
        /\ \A t \in QueryTags :
               TagManager_GetEntitiesByTag(n, t) = TagManager_GetEntitiesByTag(CurTM, t) \ {e}

\* C35: Cleanup changes nothing about entities that are not pending: their
\* registry entry, isAlive and tags are as before and every tag lists them as
\* before, and a tag shared with a purged entity lists exactly the remaining
\* holders (likewise RemoveAllTags of one entity in the TagManager).
C35_CleanupFrame == C35_World /\ C35_TagManager

\* a pending entity and an alive one share a tag
C35_Witness ==
    \E p \in PendingPtrs, q \in Pointers \ PendingPtrs, t \in QueryTags :
        /\ Registered(q)
        /\ World_IsAlive(Cur, q)
        /\ {p, q} \subseteq World_GetEntitiesByTag(Cur, t)

-----------------------------------------------------------------------------
(* C34 *)

\* C34: the registry's entity count equals the number of entities for which
\* IsAlive is true: an entity destroyed but not yet cleaned up is not counted,
\* so the count is the same right before and right after Cleanup.
C34_CountIsAlive ==
    /\ World_EntityCount(Cur) = Cardinality({p \in Pointers : World_IsAlive(Cur, p)})
    /\ World_EntityCount(World_Cleanup(Cur)) = World_EntityCount(Cur)

-----------------------------------------------------------------------------
(* C31 *)

\* C31: for an entity that Cleanup has purged, AddTag and RemoveTag leave the
\* tag index unchanged, HasTag is false, and the entity is in no
\* GetEntitiesByTag result.
C31_IdentityMissIsNoOp ==
    \A p \in Pointers :
        Purged(p) =>
            /\ \A t \in RawTags :
                   /\ World_AddTag(Cur, p, t).tagIndex = tagIndex
                   /\ World_RemoveTag(Cur, p, t).tagIndex = tagIndex
                   /\ ~World_HasTag(Cur, p, t)
            /\ \A t \in QueryTags : p \notin World_GetEntitiesByTag(Cur, t)

-----------------------------------------------------------------------------
(* C32 *)

\* the rule list without its rule j
Without(B, j) == SubSeq(B, 1, j - 1) \o SubSeq(B, j + 1, Len(B))

\* the same dispatcher, had rule j not been registered
Unregistered(s, j) == [s EXCEPT !.Behaviors = Without(s.Behaviors, j)]

\* what an Update() leaves behind: the registry, the tag index and the queue
Effects(s) == <<s.Entities, s.tagIndex, s.idCounter, s.entitiesToDelete, s.heap, s.eventQueue>>

SameAsUnregistered(j) ==
    Effects(Dispatcher_Update(Cur)) = Effects(Dispatcher_Update(Unregistered(Cur, j)))

\* the trigger of rule j matches none of the queued events
NeverMatches(j) ==
    \A i \in 1..Len(eventQueue) : ~Matches(Behaviors[j].Trigger, eventQueue[i])

\* C32 as stated: a rule whose trigger matches no queued event, and a rule
\* with zero actions whatever its trigger type and conditions, leaves the
\* registry, the tag index and the event queue after Update() exactly as
\* they would be if the rule were not registered.
C32_ZeroActionsInert ==
    \A j \in 1..Len(Behaviors) :
        (NeverMatches(j) \/ Len(Behaviors[j].Actions) = 0) => SameAsUnregistered(j)

C32_InertRules ==
    \A j \in 1..Len(Behaviors) :
        (\/ NeverMatches(j)
         \/ Len(Behaviors[j].Actions) = 0 /\ Behaviors[j].Trigger.Type # "loop")
        => SameAsUnregistered(j)

\* C32, amended: a rule whose trigger matches no queued event, and a rule
\* with zero actions whose trigger type is not "loop", whatever its
\* conditions, leaves the registry, the tag index and the event queue after
\* Update() exactly as they would be if the rule were not registered; and
\* Update() leaves the component stores alone.
C32_MisconfiguredInert ==
    /\ []C32_InertRules
    /\ [][CallUpdate => UNCHANGED compVars]_vars

\* an Update() has run in which the rule without actions matched an event and
\* passed its condition, next to a rule that matched nothing and rules that
\* acted, and the next Update() has events to process
C32_Witness ==
    /\ Behaviors = RulesInert
    /\ eventQueue # <<>>
    /\ \E i \in 1..Len(log) : log[i].op = "cond" /\ log[i].rule = 1 /\ log[i].ok
    /\ \E i \in 1..Len(log) : log[i].op = "act" /\ log[i].rule = 2
    /\ \A i \in 1..Len(log) : log[i].rule = 3 => log[i].op = "match" /\ ~log[i].ok

-----------------------------------------------------------------------------
(* C33 *)

\* a second dispatcher, newly constructed with the rule list of s over a World
\* in the registry state of s, and given the queued events of s
SecondDispatcher(s) ==
    [Entities |-> s.Entities, tagIndex |-> s.tagIndex, idCounter |-> s.idCounter,
     entitiesToDelete |-> s.entitiesToDelete, heap |-> s.heap,
     eventQueue |-> s.eventQueue, log |-> <<>>, Behaviors |-> s.Behaviors]

C33_SameOutcome == Dispatcher_Update(Cur) = Dispatcher_Update(SecondDispatcher(Cur))

-----------------------------------------------------------------------------
(* C36 *)

\* in the pass traced by lg over queue q, rule j matched the event at pos and
\* every one of its conditions answered true
PassedIn(lg, q, pos, j) ==
    /\ Matches(Behaviors[j].Trigger, q[pos])
    /\ \A k \in 1..Len(Behaviors[j].Conditions) :
         \E i \in EntriesN(lg, "cond", pos, j, k) : lg[i].ok

\* the loop rules that passed on an event equal to x, with the event's position
LoopPasses(lg, q, x) ==
    {pj \in (1..Len(q)) \X (1..Len(Behaviors)) :
        /\ q[pj[1]] = x
        /\ Behaviors[pj[2]].Trigger.Type = "loop"
        /\ PassedIn(lg, q, pj[1], pj[2])}

\* the actions of the pass that emitted x
EmitsOf(lg, x) ==
    {i \in 1..Len(lg) : lg[i].op = "act" /\ ActionOf(lg, i) = [kind |-> "Emit", arg |-> x]}

\* a loop rule that passes on every loop event
AlwaysPassing(b) ==
    /\ b.Trigger.Type = "loop"
    /\ b.Trigger.Entities = <<>>
    /\ \A k \in 1..Len(b.Conditions) : b.Conditions[k] = AlwaysTrue

AlwaysPassingRules == {j \in 1..Len(Behaviors) : AlwaysPassing(Behaviors[j])}

C36_Copies ==
    CallUpdate =>
        /\ \A x \in Range(eventQueue) :
             x.Type = "loop" =>
                Count(eventQueue', x) = Cardinality(LoopPasses(log', eventQueue, x))
                                        + Cardinality(EmitsOf(log', x))
        /\ Cardinality(LoopEvents(eventQueue'))
              >= Cardinality(AlwaysPassingRules) * Cardinality(LoopEvents(eventQueue))
        /\ Behaviors = RulesLoopTwice =>
              Len(eventQueue') = 2 * Cardinality(LoopEvents(eventQueue))

\* C36: when k rules of trigger type "loop" match a queued "loop" event and
\* pass their conditions during an Update(), exactly k copies of that event
\* are appended to the next queue, one per such rule (next to the copies that
\* emitting actions add); with k always-passing loop rules the number of
\* queued loop events is multiplied by at least k on every Update(), by
\* exactly k when they are the only rules, and so never decreases.
C36_LoopCopiesMultiply == [][C36_Copies]_vars

\* two always-passing loop rules, after an Update() that took two copies of the
\* loop event and left four
C36_Witness ==
    /\ Behaviors = RulesLoopTwice
    /\ Cardinality(AlwaysPassingRules) = 2
    /\ Cardinality(LoopEvents(taken)) = 2
    /\ Cardinality(LoopEvents(eventQueue)) = 4
    /\ Cardinality(LoopPasses(log, taken, evLoop)) = 4

-----------------------------------------------------------------------------
(* C37 *)

\* the event that emission i of the pass traced by lg over queue q emitted
EmittedBy(lg, q, i) ==
    IF lg[i].op = "loop" THEN q[lg[i].pos] ELSE ActionOf(lg, i).arg

\* the place of emission i among the emissions of the pass, when they are
\* ordered by event position, then rule, then action index, a loop
\* re-emission after the actions of its rule
PlaceOf(lg, i) == 1 + Cardinality({k \in Emissions(lg) : Before(lg[k], lg[i])})

C37_Ordered ==
    CallUpdate =>
        /\ Len(eventQueue') = Cardinality(Emissions(log'))
        /\ \A i \in Emissions(log') :
             /\ PlaceOf(log', i) \in 1..Len(eventQueue')
             /\ eventQueue'[PlaceOf(log', i)] = EmittedBy(log', eventQueue, i)
        /\ \A i, k \in Emissions(log') : i # k => PlaceOf(log', i) # PlaceOf(log', k)

\* C37: the queue Update() leaves for the next pass lists the events emitted
\* during the call in the order of the emissions: by processed event in queue
\* order, then by rule in registration order, then by action in list order,
\* the event re-emitted by a loop rule after all events emitted by the actions
\* of that rule.
C37_QueueInEmissionOrder == [][C37_Ordered]_vars

\* an Update() over a loop event and a START event: the loop rule re-emitted
\* the first, then the second rule emitted two events on the second and the
\* fifth rule one
C37_Witness ==
    /\ Behaviors = RulesInert
    /\ taken = <<evLoop, evStart>>
    /\ eventQueue = <<evLoop, evPing, evLoop, evPing>>
    /\ Cardinality(Emissions(log)) = 4

=============================================================================
